---- MODULE Spec2Model ----
(***************************************************************************)
(* cargo-show-asm: the IPC preview service (src/ipc.rs), the interactive   *)
(* mode that owns it (src/lib.rs) and the item extractor (src/asm.rs).     *)
(*                                                                         *)
(* Text is a sequence of one-character strings, so that trimming,          *)
(* splitting, parsing and formatting are computed the way the code         *)
(* computes them.  Option<T> is a sequence of length 0 (None) or 1 (Some). *)
(***************************************************************************)
EXTENDS Integers, Sequences, FiniteSets, TLC

None == <<>>
Some(x) == <<x>>
IsSome(o) == Len(o) = 1
Unwrap(o) == o[1]

Min(a, b) == IF a < b THEN a ELSE b

(***************************************************************************)
(* Bounds of the model.                                                    *)
(***************************************************************************)
\* number of client processes that may connect during one interactive session
MaxClients == 2

-----------------------------------------------------------------------------
(***************************************************************************)
(* Text helpers (std::str as used by ipc.rs and lib.rs).                   *)
(***************************************************************************)

\* a byte that is not valid UTF-8 (read_line fails on it)
InvalidByte == "<FF>"

\* char::is_whitespace, restricted to the characters that occur
Whitespace == {" ", "\n", "\t", "\r"}

Digits == <<"0", "1", "2", "3", "4", "5", "6", "7", "8", "9">>
IsDigit(c) == \E d \in 1..10 : Digits[d] = c
DigitVal(c) == (CHOOSE d \in 1..10 : Digits[d] = c) - 1

\* a character outside ASCII (u with diaeresis, the bytes C3 BC)
NonAscii == "<C3BC>"

\* the characters that occur in item names, in increasing byte order
AsciiOrder ==
    <<" ", "(", ")", "0", "1", "2", "3", "4", "5", "6", "7", "8", "9", ":",
      "a", "b", "c", "d", "e", "f", "g", "h", "i", "n", "o", "r", "s", "t", NonAscii>>
CharCode(c) == CHOOSE i \in 1..Len(AsciiOrder) : AsciiOrder[i] = c

\* str::cmp: bytewise lexicographic order
TextLess(a, b) ==
    \E i \in 1..(Min(Len(a), Len(b)) + 1) :
        /\ \A j \in 1..(i - 1) : a[j] = b[j]
        /\ \/ i > Len(a) /\ i <= Len(b)
           \/ i <= Len(a) /\ i <= Len(b) /\ CharCode(a[i]) < CharCode(b[i])

\* str::trim_start
TrimStart(s) ==
    IF \A i \in 1..Len(s) : s[i] \in Whitespace THEN <<>>
    ELSE SubSeq(s, CHOOSE i \in 1..Len(s) :
                        s[i] \notin Whitespace /\ \A j \in 1..(i - 1) : s[j] \in Whitespace,
                Len(s))

\* str::trim_end
TrimEnd(s) ==
    IF \A i \in 1..Len(s) : s[i] \in Whitespace THEN <<>>
    ELSE SubSeq(s, 1, CHOOSE i \in 1..Len(s) :
                        s[i] \notin Whitespace /\ \A j \in (i + 1)..Len(s) : s[j] \in Whitespace)

\* str::trim
Trim(s) == TrimEnd(TrimStart(s))

\* str::starts_with
StartsWith(s, pat) == Len(pat) <= Len(s) /\ SubSeq(s, 1, Len(pat)) = pat

\* the positions at which pat occurs in s
Occurrences(s, pat) ==
    {i \in 1..(Len(s) - Len(pat) + 1) : SubSeq(s, i, i + Len(pat) - 1) = pat}

\* str::split_once: split at the first occurrence of pat
SplitOnce(s, pat) ==
    IF Occurrences(s, pat) = {} THEN None
    ELSE LET i == CHOOSE p \in Occurrences(s, pat) : \A q \in Occurrences(s, pat) : p <= q
         IN Some(<<SubSeq(s, 1, i - 1), SubSeq(s, i + Len(pat), Len(s))>>)

RECURSIVE DecValue(_)
DecValue(s) ==
    IF s = <<>> THEN 0
    ELSE 10 * DecValue(SubSeq(s, 1, Len(s) - 1)) + DigitVal(s[Len(s)])

\* str::parse::<usize>: an optional '+', then one or more decimal digits
\* (the texts of the model stay far below usize::MAX)
ParseUsize(s) ==
    LET body == IF Len(s) > 0 /\ s[1] = "+" THEN Tail(s) ELSE s
    IN IF body = <<>> \/ \E i \in 1..Len(body) : ~IsDigit(body[i]) THEN None
       ELSE Some(DecValue(body))

\* Display for usize
RECURSIVE ToDecimal(_)
ToDecimal(n) ==
    IF n < 10 THEN <<Digits[n + 1]>>
    ELSE ToDecimal(n \div 10) \o <<Digits[(n % 10) + 1]>>

\* the lines of a text: the pieces ended by "\n", and a last piece without one
RECURSIVE TextLines(_)
TextLines(s) ==
    IF s = <<>> THEN <<>>
    ELSE IF \E i \in 1..Len(s) : s[i] = "\n"
         THEN LET n == CHOOSE i \in 1..Len(s) : s[i] = "\n" /\ \A j \in 1..(i - 1) : s[j] # "\n"
              IN <<SubSeq(s, 1, n)>> \o TextLines(SubSeq(s, n + 1, Len(s)))
         ELSE <<s>>

IsPrefix(p, s) == Len(p) <= Len(s) /\ SubSeq(s, 1, Len(p)) = p

-----------------------------------------------------------------------------
(***************************************************************************)
(* Items (lib.rs) and the item map BTreeMap<Item, Range<usize>>.           *)
(***************************************************************************)

Item(name, hashed, index, len) ==
    [name |-> name, hashed |-> hashed, index |-> index, len |-> len]

\* #[derive(Ord)] on Item: lexicographic on the fields in declaration order
ItemLess(a, b) ==
    \/ TextLess(a.name, b.name)
    \/ /\ a.name = b.name
       /\ \/ TextLess(a.hashed, b.hashed)
          \/ /\ a.hashed = b.hashed
             /\ \/ a.index < b.index
                \/ a.index = b.index /\ a.len < b.len

\* BTreeMap::keys().nth(n): the key with exactly n smaller keys
KeysNth(m, n) ==
    IF n < Cardinality(DOMAIN m)
    THEN Some(CHOOSE k \in DOMAIN m : Cardinality({j \in DOMAIN m : ItemLess(j, k)}) = n)
    ELSE None

\* a plausible slip: the n-th item in the order of the ranges' starts (scan order)
ValuesNthByStart(m, n) ==
    IF n < Cardinality(DOMAIN m)
    THEN Some(m[CHOOSE k \in DOMAIN m :
                    Cardinality({j \in DOMAIN m : m[j][1] < m[k][1]}) = n])
    ELSE None

\* BTreeMap::values().nth(n)
ValuesNth(m, n) ==
    IF IsSome(KeysNth(m, n)) THEN Some(m[Unwrap(KeysNth(m, n))]) ELSE None


-----------------------------------------------------------------------------
(***************************************************************************)
(* The wire protocol and the request handler (ipc.rs).                     *)
(***************************************************************************)

MSG_REQUEST == <<"R", "e", "q", "u", "e", "s", "t", ":", " ">>
MSG_STOP == <<"S", "t", "o", "p", "\n">>

\* "Error: Malformed Message Expected:\nRequest: idx\n"
MsgMalformed ==
    <<"E", "r", "r", "o", "r", ":", " ", "M", "a", "l", "f", "o", "r", "m", "e", "d", " ",
      "M", "e", "s", "s", "a", "g", "e", " ", "E", "x", "p", "e", "c", "t", "e", "d", ":", "\n",
      "R", "e", "q", "u", "e", "s", "t", ":", " ", "i", "d", "x", "\n">>

\* format!("Error: the requested index {index} is not found\n")
MsgNotFound(index) ==
    <<"E", "r", "r", "o", "r", ":", " ", "t", "h", "e", " ", "r", "e", "q", "u", "e", "s", "t",
      "e", "d", " ", "i", "n", "d", "e", "x", " ">>
    \o ToDecimal(index)
    \o <<" ", "i", "s", " ", "n", "o", "t", " ", "f", "o", "u", "n", "d", "\n">>

\* writeln!(conn, "{MSG_REQUEST}{}", req.select)
RequestLine(select) == MSG_REQUEST \o ToDecimal(select) \o <<"\n">>

\* the module documentation's messages: "Request: <index>\n" and "Stop\n"
IsRequestMessage(bytes) ==
    /\ StartsWith(bytes, MSG_REQUEST)
    /\ Len(bytes) >= Len(MSG_REQUEST) + 2
    /\ bytes[Len(bytes)] = "\n"
    /\ \A i \in (Len(MSG_REQUEST) + 1)..(Len(bytes) - 1) : IsDigit(bytes[i])
IsStopMessage(bytes) == bytes = MSG_STOP
RequestedIndex(bytes) == DecValue(SubSeq(bytes, Len(MSG_REQUEST) + 1, Len(bytes) - 1))

\* the lines a dump context renders, one per statement: the three that the
\* dump context of ping_pong_test echoes and one more, for the statements of
\* the item maps of an interactive session
Data ==
    << <<"F", "i", "r", "s", "t">>,
       <<"S", "e", "c", "o", "n", "d">>,
       <<"T", "h", "i", "r", "d">>,
       <<"F", "o", "u", "r", "t", "h">> >>

\* EchoDump::dump_range_into_writer stopped after k lines of the range lo..hi
\* (half-open, 0-based)
RECURSIVE DumpLines(_, _)
DumpLines(range, k) ==
    IF k <= 0 \/ range[1] >= range[2] THEN <<>>
    ELSE Data[range[1] + 1] \o <<"\n">> \o DumpLines(<<range[1] + 1, range[2]>>, k - 1)

\* the complete text of a range
DumpText(range) == DumpLines(range, range[2] - range[1])

\* DumpRange::dump_range_into_writer as its caller sees it: Ok after the whole
\* text, Err or a panic after the first k lines (k below the range's length)
DumpRangeIntoWriter(range, outcome, k) ==
    IF outcome = "ok"
    THEN [result |-> "ok", out |-> DumpText(range)]
    ELSE [result |-> outcome, out |-> DumpLines(range, Min(k, range[2] - range[1] - 1))]

\* BufRead::read_line into the cleared buffer: up to and including the first
\* "\n" (or to end of stream); fails when the bytes are not UTF-8
ReadLine(bytes) ==
    LET line == IF TextLines(bytes) = <<>> THEN <<>> ELSE TextLines(bytes)[1]
    IN IF \E i \in 1..Len(line) : line[i] = InvalidByte
       THEN [ok |-> FALSE, buf |-> <<>>]
       ELSE [ok |-> TRUE, buf |-> line]

\* buffer.trim().split_once(MSG_REQUEST).and_then(|(_, msg)| msg.parse().ok())
ParseIndex(buffer) ==
    LET parts == SplitOnce(Trim(buffer), MSG_REQUEST)
    IN IF IsSome(parts) THEN ParseUsize(Unwrap(parts)[2]) ELSE None

\* handle_request: the directive it returns ("Err" for Err(_), "Panic" when the
\* dump context panics), what it wrote to the connection, and whether it dumped.
\* A failed read and a failed dump return Err without writing a message: the
\* error is printed by start_server on the server's own stderr
HandleRequest(bytes, itemMap, outcome, k) ==
    LET rl == ReadLine(bytes)
        index == ParseIndex(rl.buf)
        range == ValuesNth(itemMap, Unwrap(index))
        dump == DumpRangeIntoWriter(Unwrap(range), outcome, k)
    IN IF ~rl.ok THEN [dir |-> "Err", out |-> <<>>, render |-> "none"]
       ELSE IF rl.buf = MSG_STOP THEN [dir |-> "Stop", out |-> <<>>, render |-> "none"]
       ELSE IF ~IsSome(index) THEN [dir |-> "Err", out |-> MsgMalformed, render |-> "none"]
       ELSE IF ~IsSome(range)
            THEN [dir |-> "Err", out |-> MsgNotFound(Unwrap(index)), render |-> "none"]
       ELSE IF dump.result = "ok"
            THEN [dir |-> "Continue", out |-> dump.out, render |-> "ok"]
       ELSE IF dump.result = "err"
            THEN [dir |-> "Err", out |-> dump.out, render |-> "err"]
       ELSE [dir |-> "Panic", out |-> dump.out, render |-> "panic"]

-----------------------------------------------------------------------------
(***************************************************************************)
(* The inputs of the model.                                                *)
(***************************************************************************)

EmptyMap == [k \in {} |-> <<0, 0>>]

\* two items whose key order differs from the order of their ranges: what
\* find_items makes of [label _b, end of fn, section, label _a, end of fn]
MapBA ==
    (Item(<<"b">>, <<"b", "1">>, 0, 1) :> <<0, 1>>)
    @@ (Item(<<"a">>, <<"a", "2">>, 0, 1) :> <<2, 4>>)

\* the item maps an interactive session is started with
ItemMaps == {EmptyMap, MapBA}

\* the item map of ping_pong_test
PingPongItems ==
    (Item(<<"f", "i", "r", "s", "t", "(", ")">>,
          <<"f", "i", "r", "s", "t", "1", "5", "4", "2", "3", "2">>, 0, 0) :> <<0, 1>>)
    @@ (Item(<<"s", "e", "c", "o", "n", "d", "(", ")">>,
             <<"s", "e", "c", "o", "n", "d", "6", "3", "4", "5", "2">>, 1, 0) :> <<1, 2>>)
    @@ (Item(<<"t", "h", "i", "r", "d", "(", ")">>,
             <<"t", "h", "i", "r", "d", "4", "3", "5", "3", "4">>, 2, 0) :> <<2, 3>>)

\* what a process other than the preview client writes to the socket
RawLines ==
    { <<"x", "R", "e", "q", "u", "e", "s", "t", ":", " ", "0", "\n">>,
      <<"R", "e", "q", "u", "e", "s", "t", ":", " ", "x", "\n">>,
      <<"R", "e", "q", "u", "e", "s", "t", ":", " ", "5", "\n">>,
      <<"R", "e", "q", "u", "e", "s", "t", ":", " ", "0", "\n",
        "R", "e", "q", "u", "e", "s", "t", ":", " ", "1", "\n">>,
      <<"S", "t", "o", "p">>,
      <<InvalidByte, "\n">>,
      <<>> }

-----------------------------------------------------------------------------
(***************************************************************************)
(* The state: one interactive session (lib.rs interactive_mode), its       *)
(* finder process, the server thread (ipc.rs start_server) and the client  *)
(* processes (ipc.rs start_client).  Connection 0 is the one               *)
(* send_server_stop opens; connection c >= 1 is client c's.                *)
(***************************************************************************)

VARIABLES
    items,       \* the item map of the run
    dumpCtx,     \* "EchoDump" (never fails) or "Generic" (may return Err or panic)
    ppc,         \* where the owner (interactive_mode, or the test) stands
    scopePanic,  \* the closure of thread::scope panicked; the scope still joins
    finder,      \* "none", "running", "exited"
    fstatus,     \* the finder's exit status: "success" or "fail"
    fout,        \* the finder's standard output
    published,   \* the lines written to the finder's standard input
    finalOut,    \* Some(text written to stdout by the final dump_range)
    listener,    \* "none", "bound", "closed"
    spc,         \* the server thread: "unstarted", "bind", "accept", "handle",
                 \* "returned", "panicked"
    scur,        \* the connection handle_request owns, or NoConn
    backlog,     \* connections made and not yet accepted, oldest first
    cpc,         \* client c: "idle", "connect", "retry", "write", "read", "done", "panicked"
    cstate,      \* connection c: "none", "backlog", "handling", "closed" (dropped by
                 \* handle_request), "reset" (dropped unaccepted with the listener)
    csent,       \* what has been written to connection c by its client
    cresp,       \* what the server has written to connection c
    crender,     \* how the dump for connection c ended: "none", "ok", "err", "panic"
    lines,       \* find_items: the statements the scan has gone over
    sec_start,   \* find_items: where the range of the next closed item starts
    item,        \* find_items: the open item (Option<Item>), len = its label's index
    names,       \* find_items: how many items each name has opened
    res,         \* find_items: the map being built
    closed,      \* the <<item, range>> pairs inserted into res, in scan order
    goal,        \* dump_function: the ToDump it was called with
    diag,        \* get_dump_range: what it printed before it exited, or "none"
    dumpRange,   \* Some(r) once get_dump_range has returned r (an Option<Range>)
    rstmts,      \* AsmDumpCtx: the statements of the file
    rrange,      \* dump_range_into_writer: the range asked for (Option<Range>)
    fmt,         \* AsmDumpCtx: the format options the render reads
    files,       \* AsmDumpCtx: what the file map holds for file 0
    rix,         \* dump_range_into_writer: statements of the scope gone over
    prev_loc,    \* dump_range_into_writer: the location emitted last
    empty_line,  \* dump_range_into_writer: a blank line stands for dropped labels
    rout,        \* the lines written to the writer: [k |-> kind, ix |-> statement]
    rpc,         \* the render: "idle", "run", "ok", "err", "panic"
    fs,          \* locate_sources: the paths that exist in the file system
    lpath,       \* locate_sources: Some(path) once it was called with path
    lres,        \* locate_sources: how the call ended
    pin,         \* parse_file: what the grammar makes of the input
    pres,        \* parse_file: its result
    dcalls,      \* dump_function: the calls it has made, in order
    smap,        \* serialize: the item map
    sout,        \* serialize: the lines written
    sres,        \* deserialize: the line it was given and its result
    sgin,        \* suggest_name: its arguments (search, full, items)
    sgout,       \* suggest_name: the lines printed
    sgst         \* suggest_name: its position, ix and the groups printed

ownerVars == <<ppc, scopePanic, published, finalOut>>
finderVars == <<finder, fstatus, fout>>
serverVars == <<listener, spc, scur, backlog>>
clientVars == <<cpc>>
connVars == <<cstate, csent, cresp, crender>>
ipcVars == <<items, dumpCtx, ownerVars, finderVars, serverVars, clientVars, connVars>>
scanVars == <<lines, sec_start, item, names, res, closed>>
dumpVars == <<goal, diag, dumpRange>>
renderVars == <<rstmts, rrange, fmt, files, rix, prev_loc, empty_line, rout, rpc>>
locateVars == <<fs, lpath, lres>>
parseVars == <<pin, pres, dcalls>>
selectVars == <<smap, sout, sres>>
suggestVars == <<sgin, sgout, sgst>>
fnVars == <<locateVars, parseVars, selectVars, suggestVars>>
nonLocateVars == <<ipcVars, scanVars, dumpVars, renderVars, parseVars, selectVars, suggestVars>>
nonParseVars == <<ipcVars, scanVars, dumpVars, renderVars, locateVars, selectVars, suggestVars>>
nonSelectVars == <<ipcVars, scanVars, dumpVars, renderVars, locateVars, parseVars, suggestVars>>
nonSuggestVars == <<ipcVars, scanVars, dumpVars, renderVars, locateVars, parseVars, selectVars>>
nonIpcVars == <<scanVars, dumpVars, renderVars, fnVars>>
nonScanVars == <<ipcVars, dumpVars, renderVars, fnVars>>
nonRenderVars == <<ipcVars, scanVars, dumpVars, fnVars>>
vars == <<ipcVars, scanVars, dumpVars, renderVars, fnVars>>

StopConn == 0
NoConn == -1
Clients == 1..MaxClients
Conns == 0..MaxClients

HasNewline(s) == \E i \in 1..Len(s) : s[i] = "\n"

\* the outcomes the dump context can have
RenderOutcomes == IF dumpCtx = "EchoDump" THEN {"ok"} ELSE {"ok", "err", "panic"}

InitIpc ==
    /\ scopePanic = FALSE
    /\ published = <<>>
    /\ finalOut = None
    /\ finder = "none"
    /\ fstatus = "none"
    /\ fout = <<>>
    /\ listener = "none"
    /\ scur = NoConn
    /\ backlog = <<>>
    /\ cstate = [c \in Conns |-> "none"]
    /\ csent = [c \in Conns |-> <<>>]
    /\ cresp = [c \in Conns |-> <<>>]
    /\ crender = [c \in Conns |-> "none"]

\* the locals of find_items before its loop (asm.rs 45-49)
InitScan ==
    /\ lines = <<>>
    /\ sec_start = 0
    /\ item = None
    /\ names = [n \in {} |-> 0]
    /\ res = [k \in {} |-> <<0, 0>>]
    /\ closed = <<>>

\* the goals of a run (opts::ToDump)
Everything == [t |-> "Everything"]
ByIndex(value) == [t |-> "ByIndex", value |-> value]
Function(function, nth) == [t |-> "Function", function |-> function, nth |-> nth]
Interactive == [t |-> "Interactive"]
Unspecified == [t |-> "Unspecified"]

\* get_dump_range has not been called
InitDump ==
    /\ diag = "none"
    /\ dumpRange = None

\* Loc::default()
LocDefault == [file |-> 0, line |-> 0]

\* no source path has been looked up
InitLocate ==
    /\ fs = {}
    /\ lpath = None
    /\ lres = [k |-> "idle"]

\* no file has been parsed
InitParse ==
    /\ pin = [stmts |-> 0, ascii |-> 0, wide |-> 0, failure |-> FALSE]
    /\ pres = [k |-> "idle"]
    /\ dcalls = <<>>

\* no list has been serialized
InitSelect ==
    /\ smap = EmptyMap
    /\ sout = <<>>
    /\ sres = [k |-> "idle"]

\* suggest_name has not been called
InitSuggest ==
    /\ sgin = [search |-> <<>>, full |-> FALSE, items |-> <<>>]
    /\ sgout = <<>>
    /\ sgst = [pc |-> "idle", ix |-> 0, groups |-> 0]

InitFn == InitLocate /\ InitParse /\ InitSelect /\ InitSuggest

\* no render is under way
InitRender ==
    /\ rstmts = <<>>
    /\ rrange = None
    /\ fmt = [keep_labels |-> FALSE, rust |-> FALSE, simplify |-> FALSE, verbosity |-> 0]
    /\ files = "resolved"
    /\ rix = 0
    /\ prev_loc = LocDefault
    /\ empty_line = FALSE
    /\ rout = <<>>
    /\ rpc = "idle"

\* dump_function has parsed the file and calls interactive_mode; the scan
\* that made the item map is SpecFindItems, and its locals are at rest here
Init ==
    /\ items \in ItemMaps
    /\ dumpCtx = "Generic"
    /\ ppc = "spawn_finder"
    /\ spc = "unstarted"
    /\ cpc = [c \in Clients |-> "idle"]
    /\ InitIpc
    /\ InitScan
    /\ goal = Interactive
    /\ InitDump
    /\ InitRender
    /\ InitFn

-----------------------------------------------------------------------------
(***************************************************************************)
(* interactive_mode (lib.rs) and the finder process.                       *)
(***************************************************************************)

DELIMITER == <<":", " ">>

\* usize::ilog10 (the caller has n > 0; it panics on 0)
RECURSIVE Ilog10(_)
Ilog10(n) == IF n < 10 THEN 0 ELSE 1 + Ilog10(n \div 10)

\* format!("{ix:width$}"): right-aligned, padded with spaces
PadLeft(s, width) == [i \in 1..(IF width > Len(s) THEN width - Len(s) ELSE 0) |-> " "] \o s

\* a plausible slip: the list is numbered in the order of the ranges (the
\* order in which the scan found the items), not in the order of the keys
PublishedLinesByStart(m) ==
    LET width == Ilog10(Cardinality(DOMAIN m)) + 1
    IN [i \in 1..Cardinality(DOMAIN m) |->
            PadLeft(ToDecimal(i - 1), width) \o DELIMITER
            \o (CHOOSE k \in DOMAIN m :
                    Cardinality({j \in DOMAIN m : m[j][1] < m[k][1]}) = i - 1).name]

\* the lines written to the finder: "{ix:width$}{delimiter}{name}"
PublishedLines(m) ==
    LET width == Ilog10(Cardinality(DOMAIN m)) + 1
    IN [i \in 1..Cardinality(DOMAIN m) |->
            PadLeft(ToDecimal(i - 1), width) \o DELIMITER \o Unwrap(KeysNth(m, i - 1)).name]

\* trim_start().split_once(delimiter).and_then(|(first, _)| first.parse().ok())
ParseSelection(out) ==
    LET parts == SplitOnce(TrimStart(out), DELIMITER)
    IN IF IsSome(parts) THEN ParseUsize(Unwrap(parts)[1]) ELSE None

\* selector.spawn()
SpawnFinder ==
    /\ ppc = "spawn_finder"
    /\ finder' = "running"
    /\ ppc' = "publish"
    /\ UNCHANGED <<nonIpcVars, items, dumpCtx, scopePanic, published, finalOut, fstatus, fout,
                   serverVars, clientVars, connVars>>

\* the width and the loop that writes the list: ilog10 panics on an empty map,
\* and a write to a finder that is gone fails the expect
Publish ==
    /\ ppc = "publish"
    /\ IF Cardinality(DOMAIN items) = 0 \/ finder = "exited"
       THEN ppc' = "panicked" /\ published' = published
       ELSE ppc' = "scope_spawn" /\ published' = PublishedLines(items)
    /\ UNCHANGED <<nonIpcVars, items, dumpCtx, scopePanic, finalOut, finderVars,
                   serverVars, clientVars, connVars>>

\* thread::scope: s.spawn(|| ipc::start_server(..))
ScopeSpawn ==
    /\ ppc = "scope_spawn"
    /\ spc' = "bind"
    /\ ppc' = "wait_selector"
    /\ UNCHANGED <<nonIpcVars, items, dumpCtx, scopePanic, published, finalOut, finderVars,
                   listener, scur, backlog, clientVars, connVars>>

\* wait_selector(): returns when the finder has exited
WaitSelector ==
    /\ ppc = "wait_selector"
    /\ finder = "exited"
    /\ ppc' = "send_stop"
    /\ UNCHANGED <<nonIpcVars, items, dumpCtx, scopePanic, published, finalOut, finderVars,
                   serverVars, clientVars, connVars>>

\* a plausible slip: the Stop is sent without waiting for the finder
StopBeforeFinderExit == ppc \in {"wait_selector", "send_stop"}

\* the owner is at the call of ipc::send_server_stop()
AtSendStop == ppc = "send_stop"

\* send_server_stop: connect, write "Stop\n", drop the connection; a failed
\* connect fails the expect
SendStop(nextpc) ==
    /\ IF listener = "bound"
       THEN /\ backlog' = Append(backlog, StopConn)
            /\ cstate' = [cstate EXCEPT ![StopConn] = "backlog"]
            /\ csent' = [csent EXCEPT ![StopConn] = MSG_STOP]
            /\ scopePanic' = FALSE
       ELSE /\ scopePanic' = TRUE
            /\ UNCHANGED <<backlog, cstate, csent>>
    /\ ppc' = nextpc
    /\ UNCHANGED <<nonIpcVars, items, dumpCtx, published, finalOut, finderVars,
                   listener, spc, scur, clientVars, cresp, crender>>

\* ipc::send_server_stop() in the closure of thread::scope: a panic unwinds
\* into the scope, which joins the server thread all the same
SendServerStop ==
    /\ AtSendStop
    /\ SendStop("join")

\* thread::scope returns when every thread spawned in it has finished
ServerThreadFinished == spc \in {"returned", "panicked"}

\* the end of thread::scope: join, then resume a panic of the closure or of
\* the server thread
ScopeJoin ==
    /\ ppc = "join"
    /\ ServerThreadFinished
    /\ ppc' = IF scopePanic \/ spc = "panicked" THEN "panicked" ELSE "select"
    /\ UNCHANGED <<nonIpcVars, items, dumpCtx, scopePanic, published, finalOut, finderVars,
                   serverVars, clientVars, connVars>>

\* the range of the finder's selection (lib.rs 288-308): "exit1" for a failed
\* finder or an index that is not in the map, "panicked" for an unparsable line
SelectedRange ==
    IF fstatus # "success" THEN [pc |-> "exit1", range |-> None]
    ELSE IF ~IsSome(ParseSelection(fout)) THEN [pc |-> "panicked", range |-> None]
    ELSE IF ~IsSome(ValuesNth(items, Unwrap(ParseSelection(fout))))
         THEN [pc |-> "exit1", range |-> None]
    ELSE [pc |-> "final_render", range |-> ValuesNth(items, Unwrap(ParseSelection(fout)))]

\* the checks between the scope and the final dump
Select ==
    /\ ppc = "select"
    /\ ppc' = SelectedRange.pc
    /\ UNCHANGED <<nonIpcVars, items, dumpCtx, scopePanic, published, finalOut, finderVars,
                   serverVars, clientVars, connVars>>

\* dump_ctx.dump_range(range): straight to stdout; a failed write exits with 0
FinalRender ==
    /\ ppc = "final_render"
    /\ \E outcome \in RenderOutcomes, k \in 0..1 :
        LET dump == DumpRangeIntoWriter(Unwrap(SelectedRange.range), outcome, k)
        IN /\ finalOut' = Some(dump.out)
           /\ ppc' = CASE dump.result = "ok" -> "done"
                       [] dump.result = "err" -> "exit0"
                       [] OTHER -> "panicked"
    /\ UNCHANGED <<nonIpcVars, items, dumpCtx, scopePanic, published, finderVars,
                   serverVars, clientVars, connVars>>

\* the user picks line i of the list: the finder prints it and exits with 0
FinderSelect ==
    /\ finder = "running"
    /\ \E i \in 1..Len(published) :
        fout' = published[i] \o <<"\n">>
    /\ finder' = "exited"
    /\ fstatus' = "success"
    /\ UNCHANGED <<nonIpcVars, items, dumpCtx, ownerVars, serverVars, clientVars, connVars>>

\* the user aborts the finder: no output, a non-zero status
FinderAbort ==
    /\ finder = "running"
    /\ finder' = "exited"
    /\ fstatus' = "fail"
    /\ UNCHANGED <<nonIpcVars, items, dumpCtx, ownerVars, fout, serverVars, clientVars, connVars>>

-----------------------------------------------------------------------------
(***************************************************************************)
(* start_client (ipc.rs) and other processes that write to the socket.     *)
(***************************************************************************)

\* clients are numbered in the order in which they start
MayStart(c) == cpc[c] = "idle" /\ \A d \in Clients : d < c => cpc[d] # "idle"

\* a process that will connect to the socket starts while the session runs:
\* the finder's preview command, or any other local process
ClientStart(c) ==
    /\ finder = "running"
    /\ MayStart(c)
    /\ cpc' = [cpc EXCEPT ![c] = "connect"]
    /\ UNCHANGED <<nonIpcVars, items, dumpCtx, ownerVars, finderVars, serverVars, connVars>>

\* LocalSocketStream::connect: succeeds while the listener is bound
Connected(c) ==
    /\ backlog' = Append(backlog, c)
    /\ cstate' = [cstate EXCEPT ![c] = "backlog"]
    /\ cpc' = [cpc EXCEPT ![c] = "write"]

\* the first connect; on failure sleep 100 ms
ClientConnect(c) ==
    /\ cpc[c] = "connect"
    /\ IF listener = "bound"
       THEN Connected(c)
       ELSE cpc' = [cpc EXCEPT ![c] = "retry"] /\ UNCHANGED <<backlog, cstate>>
    /\ UNCHANGED <<nonIpcVars, items, dumpCtx, ownerVars, finderVars, listener, spc, scur,
                   csent, cresp, crender>>

\* the second connect; on failure the expect panics
ClientRetry(c) ==
    /\ cpc[c] = "retry"
    /\ IF listener = "bound"
       THEN Connected(c)
       ELSE cpc' = [cpc EXCEPT ![c] = "panicked"] /\ UNCHANGED <<backlog, cstate>>
    /\ UNCHANGED <<nonIpcVars, items, dumpCtx, ownerVars, finderVars, listener, spc, scur,
                   csent, cresp, crender>>

\* the client has written bytes: it then reads the response to the end of the
\* stream, unless its text did not end a line, which is a writer that
\* disconnects instead
Written(c, bytes) ==
    /\ cpc[c] = "write"
    /\ cstate[c] # "reset"
    /\ csent' = [csent EXCEPT ![c] = bytes]
    /\ cpc' = [cpc EXCEPT ![c] =
                    IF bytes # <<>> /\ bytes[Len(bytes)] = "\n" THEN "read" ELSE "done"]
    /\ UNCHANGED <<nonIpcVars, items, dumpCtx, ownerVars, finderVars, serverVars,
                   cstate, cresp, crender>>

\* start_client run as the finder's preview command for line n of the list:
\* writeln!(conn, "{MSG_REQUEST}{}", req.select)
PreviewWrite(c) ==
    \E n \in 0..(Len(published) - 1) : Written(c, RequestLine(n))

\* another process writes to its connection
RawWrite(c) ==
    \E line \in RawLines : Written(c, line)

\* the server is gone before the request is written: the expect panics
WriteFails(c) ==
    /\ cpc[c] = "write"
    /\ cstate[c] = "reset"
    /\ cpc' = [cpc EXCEPT ![c] = "panicked"]
    /\ UNCHANGED <<nonIpcVars, items, dumpCtx, ownerVars, finderVars, serverVars, connVars>>

\* io::copy(&mut conn, &mut stdout()) returns at the end of the stream
ClientRead(c) ==
    /\ cpc[c] = "read"
    /\ cstate[c] \in {"closed", "reset"}
    /\ cpc' = [cpc EXCEPT ![c] = "done"]
    /\ UNCHANGED <<nonIpcVars, items, dumpCtx, ownerVars, finderVars, serverVars, connVars>>

-----------------------------------------------------------------------------
(***************************************************************************)
(* start_server (ipc.rs).                                                  *)
(***************************************************************************)

\* get_socket(): LocalSocketListener::bind
Bind ==
    /\ spc = "bind"
    /\ listener' = "bound"
    /\ spc' = "accept"
    /\ UNCHANGED <<nonIpcVars, items, dumpCtx, ownerVars, finderVars, scur, backlog,
                   clientVars, connVars>>

\* a plausible slip: a connection is accepted while another is being handled
AcceptWhileHandling == spc \in {"accept", "handle"}

\* the loop is at listener.incoming().next()
AtAccept == spc = "accept"

\* listener.incoming(): the next connection; buffer.clear()
Accept ==
    /\ AtAccept
    /\ backlog # <<>>
    /\ scur' = Head(backlog)
    /\ backlog' = Tail(backlog)
    /\ cstate' = [cstate EXCEPT ![Head(backlog)] = "handling"]
    /\ spc' = "handle"
    /\ UNCHANGED <<nonIpcVars, items, dumpCtx, ownerVars, finderVars, listener,
                   clientVars, csent, cresp, crender>>

\* read_line returns: a whole line has arrived, or the writer is gone
LineAvailable(c) ==
    \/ HasNewline(csent[c])
    \/ c = StopConn
    \/ c \in Clients /\ cpc[c] \in {"done", "panicked"}

\* a plausible slip: a Stop does not end the loop
AfterDirectiveIgnoringStop(dir) ==
    CASE dir \in {"Continue", "Err", "Stop"} -> "accept"
      [] OTHER -> "panicked"

\* the match on handle_request's result: continue, break, or unwind
AfterDirective(dir) ==
    CASE dir \in {"Continue", "Err"} -> "accept"
      [] dir = "Stop" -> "returned"
      [] OTHER -> "panicked"

\* one turn of the loop's body: handle_request on the accepted connection, the
\* connection dropped at its return, the match on the result.  When the loop
\* ends the listener is dropped with the connections nobody accepted
Handle ==
    /\ spc = "handle"
    /\ LineAvailable(scur)
    /\ \E outcome \in RenderOutcomes, k \in 0..1 :
        LET r == HandleRequest(csent[scur], items, outcome, k)
            next == AfterDirective(r.dir)
            over == next # "accept"
        IN /\ cresp' = [cresp EXCEPT ![scur] = r.out]
           /\ crender' = [crender EXCEPT ![scur] = r.render]
           /\ spc' = next
           /\ listener' = IF over THEN "closed" ELSE listener
           /\ backlog' = IF over THEN <<>> ELSE backlog
           /\ cstate' = [c \in Conns |->
                            IF c = scur THEN "closed"
                            ELSE IF over /\ cstate[c] = "backlog" THEN "reset"
                            ELSE cstate[c]]
    /\ scur' = NoConn
    /\ UNCHANGED <<nonIpcVars, items, dumpCtx, ownerVars, finderVars, clientVars, csent>>

-----------------------------------------------------------------------------
Next ==
    \/ SpawnFinder
    \/ Publish
    \/ ScopeSpawn
    \/ WaitSelector
    \/ SendServerStop
    \/ ScopeJoin
    \/ Select
    \/ FinalRender
    \/ FinderSelect
    \/ FinderAbort
    \/ \E c \in Clients : ClientStart(c)
    \/ \E c \in Clients : ClientConnect(c)
    \/ \E c \in Clients : ClientRetry(c)
    \/ \E c \in Clients : PreviewWrite(c)
    \/ \E c \in Clients : RawWrite(c)
    \/ \E c \in Clients : WriteFails(c)
    \/ \E c \in Clients : ClientRead(c)
    \/ Bind
    \/ Accept
    \/ Handle

Spec == Init /\ [][Next]_vars

-----------------------------------------------------------------------------
(***************************************************************************)
(* ping_pong_test (ipc.rs): the server thread, one client thread per item  *)
(* in a scope, then send_server_stop and the join.                         *)
(***************************************************************************)

InitPingPong ==
    /\ items = PingPongItems
    /\ dumpCtx = "EchoDump"
    /\ ppc = "test_spawn_server"
    /\ spc = "unstarted"
    /\ cpc = [c \in Clients |-> "idle"]
    /\ InitIpc
    /\ InitScan
    /\ goal = Unspecified
    /\ InitDump
    /\ InitRender
    /\ InitFn

\* one client per item: client c asks for index c - 1
TestClients == {c \in Clients : c <= Cardinality(DOMAIN PingPongItems)}

\* std::thread::spawn(move || start_server(&items, &dump_ctx))
TestSpawnServer ==
    /\ ppc = "test_spawn_server"
    /\ spc' = "bind"
    /\ ppc' = "test_spawn_clients"
    /\ UNCHANGED <<nonIpcVars, items, dumpCtx, scopePanic, published, finalOut, finderVars,
                   listener, scur, backlog, clientVars, connVars>>

\* for client in clients { s.spawn(|| start_client(client)); }
TestSpawnClients ==
    /\ ppc = "test_spawn_clients"
    /\ cpc' = [c \in Clients |-> IF c \in TestClients THEN "connect" ELSE cpc[c]]
    /\ ppc' = "test_scope"
    /\ UNCHANGED <<nonIpcVars, items, dumpCtx, scopePanic, published, finalOut, finderVars,
                   serverVars, connVars>>

\* writeln!(conn, "{MSG_REQUEST}{}", req.select) with select = idx
PingPongWrite(c) == Written(c, RequestLine(c - 1))

\* the end of the clients' scope: every client thread has finished; a client
\* that panicked makes the scope panic
TestScopeEnd ==
    /\ ppc = "test_scope"
    /\ \A c \in TestClients : cpc[c] \in {"done", "panicked"}
    /\ ppc' = IF \E c \in TestClients : cpc[c] = "panicked"
              THEN "panicked" ELSE "test_send_stop"
    /\ UNCHANGED <<nonIpcVars, items, dumpCtx, scopePanic, published, finalOut, finderVars,
                   serverVars, clientVars, connVars>>

\* send_server_stop() on the test's thread
TestSendStop ==
    /\ ppc = "test_send_stop"
    /\ SendStop(IF listener = "bound" THEN "test_join" ELSE "panicked")

\* server_handle.join().unwrap()
TestJoin ==
    /\ ppc = "test_join"
    /\ ServerThreadFinished
    /\ ppc' = IF spc = "panicked" THEN "panicked" ELSE "test_passed"
    /\ UNCHANGED <<nonIpcVars, items, dumpCtx, scopePanic, published, finalOut, finderVars,
                   serverVars, clientVars, connVars>>

NextPingPong ==
    \/ TestSpawnServer
    \/ TestSpawnClients
    \/ TestScopeEnd
    \/ TestSendStop
    \/ TestJoin
    \/ \E c \in Clients : ClientConnect(c)
    \/ \E c \in Clients : ClientRetry(c)
    \/ \E c \in Clients : PingPongWrite(c)
    \/ \E c \in Clients : ClientRead(c)
    \/ Bind
    \/ Accept
    \/ Handle

SpecPingPong == InitPingPong /\ [][NextPingPong]_vars

-----------------------------------------------------------------------------
(***************************************************************************)
(* find_items (asm.rs): one forward scan over the parsed statements.  The  *)
(* scan takes the statements one at a time, so the state after n steps is  *)
(* the state of the loop after lines[0..n], and res is what find_items     *)
(* returns for that sequence.                                              *)
(***************************************************************************)

MaxStmts == 6

\* the statements the scan tells apart
SectionStart(name) == [t |-> "SectionStart", name |-> name]
GlobalDirective == [t |-> "Global"]
EndOfFn == [t |-> "EndOfFn"]
Label(id, kind) == [t |-> "Label", id |-> id, kind |-> kind]
Instruction == [t |-> "Instruction"]

is_section_start(line) == line.t = "SectionStart"
is_global(line) == line.t = "Global"
is_end_of_fn(line) == line.t = "EndOfFn"
IsLabel(line) == line.t = "Label"

TEXT_PREFIX == <<".", "t", "e", "x", "t", ".">>

\* str::strip_prefix
StripPrefix(s, pat) == IF StartsWith(s, pat) THEN Some(SubSeq(s, Len(pat) + 1, Len(s))) ELSE None

\* demangle::demangled: the display name ({:#?}) and the name with its hash
\* ({:?}) of a mangled symbol, None for any other label
Demangled(id) ==
    IF id = <<"_", "a">> THEN Some([name |-> <<"a">>, hashed |-> <<"a", "2">>])
    ELSE IF id = <<"_", "b">> THEN Some([name |-> <<"b">>, hashed |-> <<"b", "1">>])
    ELSE None

\* the statements of the model's inputs
Statements ==
    { SectionStart(TEXT_PREFIX \o <<"f">>),
      SectionStart(TEXT_PREFIX \o <<"f", "g">>),
      GlobalDirective,
      EndOfFn,
      Label(<<"_", "a">>, "Global"),
      Label(<<"_", "b">>, "Global"),
      Label(<<"f">>, "Unknown"),
      Label(<<"f">>, "Local"),
      Instruction }

\* names.entry(name).or_insert(0)
NameEntry(name) == IF name \in DOMAIN names THEN names[name] ELSE 0

\* *name_entry += 1
NameEntryBumped(name) ==
    [n \in DOMAIN names \cup {name} |-> IF n = name THEN NameEntry(name) + 1 ELSE names[n]]

\* for (ix, line) in lines.iter().enumerate(): the next statement is read
Read(line) ==
    /\ Len(lines) < MaxStmts
    /\ lines' = Append(lines, line)

\* item = Some(Item { name, hashed, index: *name_entry, len: ix })
Open(name, hashed, ix) ==
    /\ item' = Some(Item(name, hashed, NameEntry(name), ix))
    /\ names' = NameEntryBumped(name)

\* lines.get(sec_start) is a section start whose name, less ".text.", starts
\* with the label's id
InSectionNamedFor(id, all) ==
    /\ sec_start < Len(all)
    /\ is_section_start(all[sec_start + 1])
    /\ IsSome(StripPrefix(all[sec_start + 1].name, TEXT_PREFIX))
    /\ StartsWith(Unwrap(StripPrefix(all[sec_start + 1].name, TEXT_PREFIX)), id)

\* a plausible slip: every section start moves the section start
MovesSectionAlways == TRUE

\* if item.is_none()
MovesSection == item = None

\* if line.is_section_start(): sec_start moves only when no item is open
ScanSectionStart(line) ==
    /\ is_section_start(line)
    /\ Read(line)
    /\ sec_start' = IF MovesSection THEN Len(lines) ELSE sec_start
    /\ UNCHANGED <<nonScanVars, item, names, res, closed>>

\* a plausible slip: the threshold is one less
GapExceededByTwo(ix) == sec_start + 2 < ix

\* sec_start + 3 < ix
GapExceeded(ix) == sec_start + 3 < ix

\* else if line.is_global() && sec_start + 3 < ix: sec_start moves when it is
\* more than 3 behind; otherwise a global-symbol statement matches no branch
ScanGlobal(line) ==
    /\ is_global(line)
    /\ Read(line)
    /\ sec_start' = IF GapExceeded(Len(lines)) THEN Len(lines) ELSE sec_start
    /\ UNCHANGED <<nonScanVars, item, names, res, closed>>

\* a plausible slip: the range starts at the label of the item
ClosedRangeFromLabel(ix) == <<IF IsSome(item) THEN Unwrap(item).len ELSE sec_start, ix>>

\* let range = sec_start..sec_end;
ClosedRange(ix) == <<sec_start, ix>>

\* else if line.is_end_of_fn(): the open item, if any, is closed with the
\* range sec_start..ix and len = ix - (index of its label); sec_start stays
ScanEndOfFn(line) ==
    /\ is_end_of_fn(line)
    /\ Read(line)
    /\ LET ix == Len(lines)
           range == ClosedRange(ix)
       IN  /\ IF IsSome(item)
              THEN LET it == [Unwrap(item) EXCEPT !.len = ix - Unwrap(item).len]
                   IN  /\ res' = (it :> range) @@ res
                       /\ closed' = Append(closed, <<it, range>>)
              ELSE UNCHANGED <<res, closed>>
           /\ item' = None
    /\ UNCHANGED <<nonScanVars, sec_start, names>>

\* else if let Statement::Label(label) = line: a label that demangles opens
\* an item, and so does an Unknown label in a section named for it; an item
\* that was open is replaced
ScanLabel(line) ==
    /\ IsLabel(line)
    /\ Read(line)
    /\ LET ix == Len(lines)
           dem == Demangled(line.id)
       IN  IF IsSome(dem)
           THEN Open(Unwrap(dem).name, Unwrap(dem).hashed, ix)
           ELSE IF line.kind = "Unknown" /\ InSectionNamedFor(line.id, Append(lines, line))
                THEN Open(line.id, line.id, ix)
                ELSE UNCHANGED <<item, names>>
    /\ UNCHANGED <<nonScanVars, sec_start, res, closed>>

\* any other statement
ScanOther(line) ==
    /\ ~is_section_start(line) /\ ~is_global(line) /\ ~is_end_of_fn(line) /\ ~IsLabel(line)
    /\ Read(line)
    /\ UNCHANGED <<nonScanVars, sec_start, item, names, res, closed>>

\* find_items is called on the statements parse_file returned
InitFindItems ==
    /\ items = EmptyMap
    /\ dumpCtx = "Generic"
    /\ ppc = "find_items"
    /\ spc = "unstarted"
    /\ cpc = [c \in Clients |-> "idle"]
    /\ InitIpc
    /\ InitScan
    /\ goal = Unspecified
    /\ InitDump
    /\ InitRender
    /\ InitFn

NextFindItems ==
    \/ \E line \in Statements : ScanSectionStart(line)
    \/ \E line \in Statements : ScanGlobal(line)
    \/ \E line \in Statements : ScanEndOfFn(line)
    \/ \E line \in Statements : ScanLabel(line)
    \/ \E line \in Statements : ScanOther(line)

SpecFindItems == InitFindItems /\ [][NextFindItems]_vars

-----------------------------------------------------------------------------
(***************************************************************************)
(* dump_function (asm.rs) after the scan, and get_dump_range (lib.rs).  An *)
(* interactive run goes on with interactive_mode; its previews are the     *)
(* clients of Spec.                                                        *)
(***************************************************************************)

\* str::contains
Contains(s, pat) ==
    \E i \in 0..(Len(s) - Len(pat)) : SubSeq(s, i + 1, i + Len(pat)) = pat

\* items.iter().filter(|(item, _)| item.name.contains(&function)).collect()
Filtered(m, function) ==
    SelectSeq([i \in 1..Cardinality(DOMAIN m) |-> Unwrap(KeysNth(m, i - 1))],
              LAMBDA k : Contains(k.name, function))

\* a plausible slip: no shortcut for a map of one item
HasOneItemNever(m) == FALSE

\* items.len() == 1
HasOneItem(m) == Cardinality(DOMAIN m) = 1

\* get_dump_range: "direct_render" with the range it returns (None for the
\* whole file), "exit1" after printing diag, or a panic
GetDumpRange(g, m) ==
    IF HasOneItem(m)
    THEN [pc |-> "direct_render", ret |-> ValuesNth(m, 0), diag |-> "none"]
    ELSE CASE g.t = "Everything" ->
                [pc |-> "direct_render", ret |-> None, diag |-> "none"]
           [] g.t = "ByIndex" ->
                IF IsSome(ValuesNth(m, g.value))
                THEN [pc |-> "direct_render", ret |-> ValuesNth(m, g.value), diag |-> "none"]
                ELSE [pc |-> "exit1", ret |-> None, diag |-> "no_such_index"]
           [] g.t = "Function" ->
                LET filtered == Filtered(m, g.function)
                IN  IF g.nth = None /\ Len(filtered) = 1
                    THEN [pc |-> "direct_render", ret |-> Some(m[filtered[1]]), diag |-> "none"]
                    ELSE IF IsSome(g.nth) /\ Unwrap(g.nth) < Len(filtered)
                    THEN [pc |-> "direct_render",
                          ret |-> Some(m[filtered[Unwrap(g.nth) + 1]]), diag |-> "none"]
                    ELSE IF IsSome(g.nth)
                    THEN [pc |-> "exit1", ret |-> None, diag |-> "no_such_index"]
                    ELSE IF Len(filtered) = 0
                    THEN [pc |-> "exit1", ret |-> None, diag |-> "no_match"]
                    ELSE [pc |-> "exit1", ret |-> None, diag |-> "suggestions"]
           [] g.t = "Interactive" ->
                [pc |-> "panicked", ret |-> None, diag |-> "none"]
           [] OTHER ->
                [pc |-> "exit1", ret |-> None, diag |-> "suggestions"]

\* one item, and two whose names share a letter
MapOne == Item(<<"b">>, <<"b", "1">>, 0, 1) :> <<0, 1>>

MapABB ==
    (Item(<<"a", "b">>, <<"a", "b", "1">>, 0, 1) :> <<0, 1>>)
    @@ (Item(<<"b">>, <<"b", "2">>, 0, 1) :> <<2, 4>>)

DumpItemMaps == {EmptyMap, MapOne, MapABB}

Goals ==
    {Everything, Interactive, Unspecified}
    \cup {ByIndex(value) : value \in 0..2}
    \cup {Function(function, nth) : function \in {<<>>, <<"a">>, <<"b">>, <<"x">>},
                                    nth \in {None, Some(0), Some(1), Some(2)}}

\* the end of dump_function (asm.rs 376-384): the interactive goal goes to
\* interactive_mode, any other to get_dump_range; a diagnostic that cannot be
\* written to stdout ends the run with status 0 (safeprintln)
DumpFunction ==
    /\ ppc = "dump_function"
    /\ IF goal = Interactive
       THEN ppc' = "spawn_finder" /\ UNCHANGED <<diag, dumpRange>>
       ELSE LET r == GetDumpRange(goal, items)
            IN  /\ diag' = r.diag
                /\ dumpRange' = IF r.pc = "direct_render" THEN Some(r.ret) ELSE None
                /\ IF r.diag = "none"
                   THEN ppc' = r.pc
                   ELSE \E stdout_open \in BOOLEAN :
                            ppc' = IF stdout_open THEN r.pc ELSE "exit0"
    /\ UNCHANGED <<scanVars, renderVars, fnVars, goal, items, dumpCtx, scopePanic, published,
                   finalOut, finderVars, serverVars, clientVars, connVars>>

\* the range dump_range renders: the one given, or the whole file
RenderedRange(r) == IF IsSome(r) THEN Unwrap(r) ELSE <<0, Len(Data)>>

\* dump_ctx.dump_range(range)? (asm.rs 383): a failed write exits with 0
DirectRender ==
    /\ ppc = "direct_render"
    /\ \E outcome \in RenderOutcomes, k \in 0..1 :
        LET dump == DumpRangeIntoWriter(RenderedRange(Unwrap(dumpRange)), outcome, k)
        IN /\ finalOut' = Some(dump.out)
           /\ ppc' = CASE dump.result = "ok" -> "done"
                       [] dump.result = "err" -> "exit0"
                       [] OTHER -> "panicked"
    /\ UNCHANGED <<nonIpcVars, items, dumpCtx, scopePanic, published, finderVars,
                   serverVars, clientVars, connVars>>

\* dump_function has parsed the file and found its items
InitDumpFunction ==
    /\ items \in DumpItemMaps
    /\ dumpCtx = "Generic"
    /\ ppc = "dump_function"
    /\ spc = "unstarted"
    /\ cpc = [c \in Clients |-> "idle"]
    /\ InitIpc
    /\ InitScan
    /\ goal \in Goals
    /\ InitDump
    /\ InitRender
    /\ InitFn

NextDumpFunction ==
    \/ DumpFunction
    \/ DirectRender
    \/ SpawnFinder
    \/ Publish
    \/ ScopeSpawn
    \/ WaitSelector
    \/ SendServerStop
    \/ ScopeJoin
    \/ Select
    \/ FinalRender
    \/ FinderSelect
    \/ FinderAbort
    \/ Bind
    \/ Accept
    \/ Handle

SpecDumpFunction == InitDumpFunction /\ [][NextDumpFunction]_vars

-----------------------------------------------------------------------------
(***************************************************************************)
(* AsmDumpCtx::dump_range_into_writer and used_labels (asm.rs): one step   *)
(* per statement of the scope.  A line written is recorded by its kind     *)
(* ("trace", "marker", "source", "diag", "label", "blank", "stmt") and the *)
(* position in the scope of the statement it was written for.  A text is a *)
(* sequence of tokens.                                                     *)
(***************************************************************************)

MaxScope == 3

Insn(args) == [t |-> "Instruction", args |-> args]
Generic(text) == [t |-> "Generic", text |-> text]
SetDirective(text) == [t |-> "Set", text |-> text]
FileDirective == [t |-> "File"]
LocDirective(file, line) == [t |-> "Loc", file |-> file, line |-> line]
Dunno(text) == [t |-> "Dunno", text |-> text]

L1 == <<".", "L", "1">>
Ltmp0 == <<".", "L", "t", "m", "p", "0">>

\* matches!(line, Statement::Directive(_))
IsDirective(line) ==
    line.t \in {"File", "Loc", "SubsectionsViaSym", "Set", "Generic", "SectionStart"}

\* demangle::local_labels: the local-label-shaped tokens of a text
local_labels(text) ==
    {text[i] : i \in {j \in DOMAIN text : StartsWith(text[j], <<".", "L">>)}}

\* the filter_map of used_labels: the text of a statement that may refer to
\* labels (an Option)
Referenceable(stmt) ==
    CASE stmt.t \in {"Label", "Nothing"} -> None
      [] stmt.t \in {"File", "Loc", "SubsectionsViaSym", "Set"} -> None
      [] stmt.t = "Generic" -> Some(stmt.text)
      [] stmt.t = "SectionStart" -> Some(<<stmt.name>>)
      [] stmt.t = "Instruction" -> stmt.args
      [] stmt.t = "Dunno" -> Some(stmt.text)

\* a plausible slip: liveness computed incrementally, from the statements the
\* render has gone over
UsedLabelsSoFar(stmts) ==
    UNION {local_labels(Unwrap(Referenceable(stmts[i]))) :
               i \in {j \in 1..rix : IsSome(Referenceable(stmts[j]))}}

\* used_labels
UsedLabels(stmts) ==
    UNION {local_labels(Unwrap(Referenceable(stmts[i]))) :
               i \in {j \in DOMAIN stmts : IsSome(Referenceable(stmts[j]))}}

\* range.map_or(stmts, |r| &stmts[r])
Scope ==
    IF rrange = None THEN rstmts
    ELSE SubSeq(rstmts, Unwrap(rrange)[1] + 1, Unwrap(rrange)[2])

\* let used = if fmt.keep_labels { BTreeSet::new() } else { used_labels(stmts) }
Used == IF fmt.keep_labels THEN {} ELSE UsedLabels(Scope)

\* the statement of this iteration and its position in the scope
AtLine == Scope[rix + 1]
OutLine(k) == [k |-> k, ix |-> rix + 1]

\* if fmt.verbosity > 2 { writeln!(writer, "{line:?}")?; }
Trace == IF fmt.verbosity > 2 THEN <<OutLine("trace")>> ELSE <<>>

\* the writes of one iteration, each of which may fail (`?` returns Err and
\* the locals are gone), and the locals at its end
Iteration(ws, loc, flag) ==
    \E n \in 0..Len(ws) :
        /\ rout' = rout \o SubSeq(ws, 1, n)
        /\ IF n = Len(ws)
           THEN /\ rix' = rix + 1
                /\ prev_loc' = loc
                /\ empty_line' = flag
                /\ rpc' = IF rix + 1 = Len(Scope) THEN "ok" ELSE "run"
           ELSE /\ rpc' = "err"
                /\ UNCHANGED <<rix, prev_loc, empty_line>>

\* if let Statement::Directive(Directive::File(_)) = &line {}
RenderFile ==
    /\ rpc = "run"
    /\ AtLine.t = "File"
    /\ Iteration(Trace, prev_loc, empty_line)
    /\ UNCHANGED <<nonRenderVars, rstmts, rrange, fmt, files>>

\* a plausible slip: a location is not compared with the one emitted last
LocSuppressedNoDedup(loc) == ~fmt.rust \/ loc.line = 0

\* the three `continue`s of the Loc branch
LocSuppressed(loc) == ~fmt.rust \/ loc.line = 0 \/ loc = prev_loc

\* else if let Statement::Directive(Directive::Loc(loc)) = &line
RenderLoc ==
    /\ rpc = "run"
    /\ AtLine.t = "Loc"
    /\ LET loc == [file |-> AtLine.file, line |-> AtLine.line]
       IN  IF LocSuppressed(loc)
           THEN Iteration(Trace, prev_loc, empty_line)
           ELSE CASE files = "resolved" ->
                       Iteration(Trace \o <<OutLine("marker"), OutLine("source")>>, loc, FALSE)
                  [] files = "unresolved" ->
                       Iteration(Trace
                                 \o (IF fmt.verbosity > 0 THEN <<OutLine("diag")>> ELSE <<>>)
                                 \o <<OutLine("marker")>>, loc, FALSE)
                  [] OTHER ->
                       \E n \in 0..Len(Trace) :
                           /\ rout' = rout \o SubSeq(Trace, 1, n)
                           /\ rpc' = IF n = Len(Trace) THEN "panic" ELSE "err"
                           /\ UNCHANGED <<rix, prev_loc, empty_line>>
    /\ UNCHANGED <<nonRenderVars, rstmts, rrange, fmt, files>>

\* a plausible slip: the flag is not consulted
NeedsPlaceholderAlways(kind) == kind # "Temp"

\* !empty_line && *kind != LabelKind::Temp
NeedsPlaceholder(kind) == ~empty_line /\ kind # "Temp"

\* else if let Statement::Label(Label { kind: Local | Temp, id }) = line
RenderLabel ==
    /\ rpc = "run"
    /\ AtLine.t = "Label" /\ AtLine.kind \in {"Local", "Temp"}
    /\ IF fmt.keep_labels \/ AtLine.id \in Used
       THEN Iteration(Trace \o <<OutLine("label")>>, prev_loc, empty_line)
       ELSE IF NeedsPlaceholder(AtLine.kind)
            THEN Iteration(Trace \o <<OutLine("blank")>>, prev_loc, TRUE)
            ELSE Iteration(Trace, prev_loc, empty_line)
    /\ UNCHANGED <<nonRenderVars, rstmts, rrange, fmt, files>>

\* a plausible slip: simplify drops every statement of the else branch
SimplifiedWhatever(line) == fmt.simplify

\* fmt.simplify && matches!(line, Statement::Directive(_) | Statement::Dunno(_))
Simplified(line) == fmt.simplify /\ (IsDirective(line) \/ line.t = "Dunno")

\* else: any other statement, dropped by simplify when it is a directive or
\* an unrecognized line
RenderOther ==
    /\ rpc = "run"
    /\ AtLine.t \notin {"File", "Loc"}
    /\ ~(AtLine.t = "Label" /\ AtLine.kind \in {"Local", "Temp"})
    /\ IF Simplified(AtLine)
       THEN Iteration(Trace, prev_loc, empty_line)
       ELSE Iteration(Trace \o <<OutLine("stmt")>>, prev_loc, FALSE)
    /\ UNCHANGED <<nonRenderVars, rstmts, rrange, fmt, files>>

\* the statements of the model's files
RenderStatements ==
    { Label(L1, "Local"),
      Label(Ltmp0, "Temp"),
      Insn(Some(<<L1>>)),
      SetDirective(<<L1>>),
      Generic(<<Ltmp0>>),
      Dunno(<<Ltmp0>>),
      LocDirective(0, 10),
      LocDirective(0, 0),
      FileDirective }

\* statements of the file that lie before the range asked for
Outside == { <<>>, <<Insn(Some(<<L1>>)), Generic(<<Ltmp0>>)>> }

\* dump_range_into_writer is called: with a range when the file has
\* statements before it, for the whole file otherwise
InitRenderRun ==
    /\ items = EmptyMap
    /\ dumpCtx = "Generic"
    /\ ppc = "direct_render"
    /\ spc = "unstarted"
    /\ cpc = [c \in Clients |-> "idle"]
    /\ InitIpc
    /\ InitScan
    /\ goal = Everything
    /\ InitDump
    /\ InitFn
    /\ \E before \in Outside :
       \E scope \in UNION {[1..n -> RenderStatements] : n \in 0..MaxScope} :
            /\ rstmts = before \o scope
            /\ rrange = IF before = <<>> THEN None
                        ELSE Some(<<Len(before), Len(before) + Len(scope)>>)
            /\ rpc = IF scope = <<>> THEN "ok" ELSE "run"
    /\ fmt \in [keep_labels : BOOLEAN, rust : BOOLEAN, simplify : BOOLEAN,
                verbosity : {0, 3}]
    /\ files \in IF fmt.rust THEN {"resolved", "unresolved", "undefined"} ELSE {"resolved"}
    /\ rix = 0
    /\ prev_loc = LocDefault
    /\ empty_line = FALSE
    /\ rout = <<>>

NextRender ==
    \/ RenderFile
    \/ RenderLoc
    \/ RenderLabel
    \/ RenderOther

SpecRender == InitRenderRun /\ [][NextRender]_vars

-----------------------------------------------------------------------------
(***************************************************************************)
(* locate_sources (asm.rs): a path is the sequence of its components, the  *)
(* root directory first; the file system is the set of paths that exist.   *)
(***************************************************************************)

RootDir == "/"
Sysroot == <<RootDir, "sysroot">>
HomeDir == <<RootDir, "home", "me">>

\* Path::starts_with: the components of base are the first of path
PathStartsWith(path, base) == IsPrefix(base, path)

\* path.components().skip(n)
Skip(path, n) == SubSeq(path, n + 1, Len(path))

\* sysroot.join("lib/rustlib/src/rust") with the components after the first n
RustSrc(path, n) == Sysroot \o <<"lib", "rustlib", "src", "rust">> \o Skip(path, n)

\* path.components().position(|c| c == "cargo" || c == ".cargo"), an Option
\* of a 0-based index
CargoPosition(path) ==
    LET hits == {i \in DOMAIN path : path[i] \in {"cargo", ".cargo"}}
    IN  IF hits = {} THEN None
        ELSE Some((CHOOSE i \in hits : \A j \in hits : i <= j) - 1)

\* .and_then(|ix| path.components().nth(ix).zip(Some(ix)))
\* .and_then(|(c, ix)| (c == "registry").then_some(ix))
RegistryIndex(path) ==
    LET pos == CargoPosition(path)
    IN  IF IsSome(pos) /\ path[Unwrap(pos) + 1] = "registry" THEN pos ELSE None

\* home_dir() with ".cargo" and the components from ix on pushed
RegistryCache(path, ix) == HomeDir \o <<".cargo">> \o Skip(path, ix)

\* a plausible slip: the compiler-source forms are tried first
ExistsVerbatimUnlessRustc(path, exists) ==
    path \in exists /\ ~PathStartsWith(path, <<RootDir, "rustc">>)

\* path.exists()
ExistsVerbatim(path, exists) == path \in exists

\* locate_sources(sysroot, path) in the file system exists: Some(p), None,
\* exit(1) after the advice to install the sources, or a panic
LocateSources(path, exists) ==
    IF ExistsVerbatim(path, exists) THEN [k |-> "some", path |-> path]
    ELSE IF PathStartsWith(path, <<RootDir, "rustc">>)
    THEN IF RustSrc(path, 3) \in exists
         THEN [k |-> "some", path |-> RustSrc(path, 3)]
         ELSE [k |-> "exit1"]
    ELSE IF PathStartsWith(path, <<RootDir, "private", "tmp">>)
            /\ \E i \in DOMAIN path : path[i] = "library"
    THEN IF RustSrc(path, 5) \in exists
         THEN [k |-> "some", path |-> RustSrc(path, 5)]
         ELSE [k |-> "exit1"]
    ELSE IF IsSome(RegistryIndex(path))
    THEN IF RegistryCache(path, Unwrap(RegistryIndex(path))) \in exists
         THEN [k |-> "some", path |-> RegistryCache(path, Unwrap(RegistryIndex(path)))]
         ELSE [k |-> "panic"]
    ELSE [k |-> "none"]

\* the paths of the debug information
SourcePaths ==
    { <<RootDir, "rustc", "a55dd7", "library", "range.rs">>,
      <<RootDir, "private", "tmp", "rust-2023", "rustc-src", "library", "option.rs">>,
      <<RootDir, "private", "tmp", "build.rs">>,
      <<RootDir, "cargo", "registry", "src", "map.rs">>,
      <<RootDir, "Users", "runner", ".cargo", "registry", "src", "map.rs">>,
      <<RootDir, "work", "main.rs">> }

\* where the sources of such a path may be installed
InstalledPaths ==
    { RustSrc(<<"library", "range.rs">>, 0),
      RustSrc(<<"library", "option.rs">>, 0),
      HomeDir \o <<".cargo", "registry", "src", "map.rs">>,
      HomeDir \o <<".cargo", "cargo", "registry", "src", "map.rs">>,
      HomeDir \o <<".cargo", ".cargo", "registry", "src", "map.rs">> }

\* load_rust_sources looks a path up in the file system of the run
Locate ==
    /\ lres.k = "idle"
    /\ \E path \in SourcePaths :
           /\ lpath' = Some(path)
           /\ lres' = LocateSources(path, fs)
    /\ UNCHANGED <<nonLocateVars, fs>>

InitLocateSources ==
    /\ items = EmptyMap
    /\ dumpCtx = "Generic"
    /\ ppc = "load_sources"
    /\ spc = "unstarted"
    /\ cpc = [c \in Clients |-> "idle"]
    /\ InitIpc
    /\ InitScan
    /\ goal = Everything
    /\ InitDump
    /\ InitRender
    /\ InitParse
    /\ InitSelect
    /\ InitSuggest
    /\ fs \in SUBSET (SourcePaths \cup InstalledPaths)
    /\ lpath = None
    /\ lres = [k |-> "idle"]

NextLocateSources == Locate

SpecLocateSources == InitLocateSources /\ [][NextLocateSources]_vars

-----------------------------------------------------------------------------
(***************************************************************************)
(* parse_file and the head of dump_function (asm.rs).  What many0 makes of *)
(* an input is the number of statements it parsed and the text it left     *)
(* over, or its own failure; the leftovers are a run of one-byte           *)
(* characters followed by a run of four-byte ones.                         *)
(***************************************************************************)

LEFTOVERS_LIMIT == 1000
PREFIX_CHARS == 200

\* str::len, in bytes
Bytes(l) == l.ascii + 4 * l.wide

\* str::chars().count()
Chars(l) == l.ascii + l.wide

\* leftovers.char_indices().nth(n): the byte offset of the character n
CharIndex(l, n) ==
    IF n < Chars(l)
    THEN Some(IF n <= l.ascii THEN n ELSE l.ascii + 4 * (n - l.ascii))
    ELSE None

\* a plausible slip: the length is taken in characters
IsShortInChars(l) == Chars(l) < LEFTOVERS_LIMIT

\* leftovers.len() < 1000
IsShort(l) == Bytes(l) < LEFTOVERS_LIMIT

\* parse_file: Ok(stmts), or an error that carries the leftovers or a prefix
\* of them (their size in bytes and in characters), or the error of many0; a
\* failed `expect` is a panic
ParseFile(in) ==
    IF in.failure THEN [k |-> "err_grammar"]
    ELSE IF Bytes(in) = 0 THEN [k |-> "ok", stmts |-> in.stmts]
    ELSE IF IsShort(in)
    THEN [k |-> "err_leftovers", bytes |-> Bytes(in), chars |-> Chars(in)]
    ELSE IF IsSome(CharIndex(in, PREFIX_CHARS))
    THEN [k |-> "err_prefix", bytes |-> Unwrap(CharIndex(in, PREFIX_CHARS)),
          chars |-> PREFIX_CHARS]
    ELSE [k |-> "panic"]

\* what many0(parse_statement) may make of the file
GrammarOutcomes ==
    [stmts : 0..2,
     ascii : {0, 1, 199, 200, 201, 999, 1000, 1001},
     wide : {0, 1, 200, 249, 250, 251},
     failure : BOOLEAN]

\* let statements = parse_file(&contents)?;
ReadAndParse ==
    /\ dcalls = <<>>
    /\ pres' = ParseFile(pin)
    /\ dcalls' = <<"parse_file">>
    /\ UNCHANGED <<nonParseVars, pin>>

\* let functions = find_items(&statements);
FindItemsCall ==
    /\ dcalls = <<"parse_file">>
    /\ pres.k = "ok"
    /\ dcalls' = Append(dcalls, "find_items")
    /\ UNCHANGED <<nonParseVars, pin, pres>>

\* interactive_mode(..) or dump_ctx.dump_range(range)
DumpCall ==
    /\ dcalls = <<"parse_file", "find_items">>
    /\ dcalls' = Append(dcalls, "dump")
    /\ UNCHANGED <<nonParseVars, pin, pres>>

InitParseFile ==
    /\ items = EmptyMap
    /\ dumpCtx = "Generic"
    /\ ppc = "parse"
    /\ spc = "unstarted"
    /\ cpc = [c \in Clients |-> "idle"]
    /\ InitIpc
    /\ InitScan
    /\ goal = Everything
    /\ InitDump
    /\ InitRender
    /\ InitLocate
    /\ InitSelect
    /\ InitSuggest
    /\ pin \in GrammarOutcomes
    /\ pres = [k |-> "idle"]
    /\ dcalls = <<>>

NextParseFile ==
    \/ ReadAndParse
    \/ FindItemsCall
    \/ DumpCall

SpecParseFile == InitParseFile /\ [][NextParseFile]_vars

-----------------------------------------------------------------------------
(***************************************************************************)
(* serialize and deserialize (select.rs).                                  *)
(***************************************************************************)

\* serialize: a panic for an empty map (ilog10 of 0), else one line per key,
\* "{index:width$}{DELIMITER}{name}\n", in key order
Serialize(m) ==
    IF Cardinality(DOMAIN m) = 0 THEN [k |-> "panic", lines |-> <<>>]
    ELSE LET width == Ilog10(Cardinality(DOMAIN m)) + 1
         IN  [k |-> "ok",
              lines |-> [i \in 1..Cardinality(DOMAIN m) |->
                            PadLeft(ToDecimal(i - 1), width) \o DELIMITER
                            \o Unwrap(KeysNth(m, i - 1)).name \o <<"\n">>]]

\* a plausible slip: the padding is not trimmed
FirstFieldUntrimmed(buffer) == SplitOnce(buffer, DELIMITER)

\* .trim_start().split_once(DELIMITER)
FirstField(buffer) == SplitOnce(TrimStart(buffer), DELIMITER)

\* deserialize: Ok(index) or an error
Deserialize(buffer) ==
    IF \E i \in DOMAIN buffer : buffer[i] = InvalidByte THEN [k |-> "err"]
    ELSE IF ~IsSome(FirstField(buffer)) THEN [k |-> "err"]
    ELSE LET index == ParseUsize(Unwrap(FirstField(buffer))[1])
         IN  IF IsSome(index) THEN [k |-> "ok", v |-> Unwrap(index)] ELSE [k |-> "err"]

\* names that look like parts of a line: the delimiter, a leading ':',
\* digits, a character outside ASCII
TrickyNames ==
    { <<"a", ":", " ", "b">>,
      <<":", "2", "0", NonAscii>>,
      <<"1", ":", " ", "7">>,
      <<":", " ">>,
      <<"3">> }

\* n items of one name, as find_items numbers them
MapOfName(name, n) == [it \in {Item(name, name, i, 1) : i \in 0..(n - 1)} |-> <<it.index, it.index + 1>>]

SelectMaps ==
    {EmptyMap} \cup {MapOfName(name, n) : name \in TrickyNames, n \in {1, 2, 10, 11}}

\* serialize(writer, items)
SerializeItems ==
    /\ sres.k = "idle"
    /\ sout = <<>>
    /\ Serialize(smap).k = "ok"
    /\ sout' = Serialize(smap).lines
    /\ UNCHANGED <<nonSelectVars, smap, sres>>

\* serialize(writer, items) on an empty map
SerializePanics ==
    /\ sres.k = "idle"
    /\ Serialize(smap).k = "panic"
    /\ sres' = [k |-> "panic"]
    /\ UNCHANGED <<nonSelectVars, smap, sout>>

\* deserialize(line), for a line that serialize wrote
DeserializeLine ==
    /\ sres.k = "idle"
    /\ \E i \in DOMAIN sout :
           sres' = [k |-> "done", pos |-> i - 1, res |-> Deserialize(sout[i])]
    /\ UNCHANGED <<nonSelectVars, smap, sout>>

InitSerialize ==
    /\ items = EmptyMap
    /\ dumpCtx = "Generic"
    /\ ppc = "serialize"
    /\ spc = "unstarted"
    /\ cpc = [c \in Clients |-> "idle"]
    /\ InitIpc
    /\ InitScan
    /\ goal = Interactive
    /\ InitDump
    /\ InitRender
    /\ InitLocate
    /\ InitParse
    /\ InitSuggest
    /\ smap \in SelectMaps
    /\ sout = <<>>
    /\ sres = [k |-> "idle"]

NextSerialize ==
    \/ SerializeItems
    \/ SerializePanics
    \/ DeserializeLine

SpecSerialize == InitSerialize /\ [][NextSerialize]_vars

-----------------------------------------------------------------------------
(***************************************************************************)
(* suggest_name (lib.rs): the list of candidates printed when the goal     *)
(* selects no single item.                                                 *)
(***************************************************************************)

\* the hashed name of a legacy symbol: the demangled name, "::h" and the hash
Hashed(name, hash) == name \o <<":", ":", "h", hash>>

\* items a file can define: two instances of f with different hashes, and
\* functions whose names sort before and after f
SuggestItems ==
    { Item(<<"a">>, Hashed(<<"a">>, "1"), 0, 1),
      Item(<<"f">>, Hashed(<<"f">>, "1"), 0, 3),
      Item(<<"f">>, Hashed(<<"f">>, "3"), 1, 2),
      Item(<<"f", "2">>, Hashed(<<"f", "2">>, "1"), 0, 4),
      Item(<<"g">>, Hashed(<<"g">>, "1"), 0, 5) }

SuggestSearches == {<<>>, <<"f">>}

\* BTreeMap::keys / BTreeMap::iter of the item map: the items in Item order
Enumeration(S) ==
    [i \in 1..Cardinality(S) |->
        CHOOSE k \in S : Cardinality({j \in S : ItemLess(j, k)}) = i - 1]

\* the key an item is filed under (lib.rs 91)
SuggestKey(it, full) == IF full THEN it.hashed ELSE it.name

\* the keys of the map `names` (lib.rs 89-95)
GroupKeys(its, full) == {SuggestKey(its[i], full) : i \in DOMAIN its}

\* the n-th entry (from 0) of `names` in iteration order: BTreeMap orders
\* its keys by str::cmp
GroupNth(its, full, n) ==
    CHOOSE k \in GroupKeys(its, full) :
        Cardinality({j \in GroupKeys(its, full) : TextLess(j, k)}) = n

\* the positions (from 0) of the items filed under a key
PositionsOf(its, full, key) ==
    {i - 1 : i \in {j \in DOMAIN its : SuggestKey(its[j], full) = key}}

\* the value of an entry of `names`: the lengths pushed, in the items' order
GroupLens(its, full, key) ==
    LET at == SelectSeq([i \in DOMAIN its |-> i],
                        LAMBDA i : SuggestKey(its[i], full) = key)
    IN [j \in DOMAIN at |-> its[at[j]].len]

\* (count as f64).log10().ceil() as usize (lib.rs 110): the least w with
\* 10^w >= count; the cast saturates minus infinity to 0
SuggestWidth(count) ==
    IF count = 0 THEN 0
    ELSE CHOOSE w \in 0..count : 10^w >= count /\ \A v \in 0..(w - 1) : 10^v < count

\* "{ix:width$} {:?} {:?}" (lib.rs 114-118)
SuggestLine(ix, width, key, lens) ==
    [k |-> "group", num |-> PadLeft(ToDecimal(ix), width), name |-> key, lens |-> lens]

SuggestHeaderLine(id) == [k |-> "header", id |-> id]

\* the first line printed (lib.rs 97-106)
SuggestHeader ==
    /\ sgst.pc = "start"
    /\ IF GroupKeys(sgin.items, sgin.full) = {}
       THEN /\ sgout' = Append(sgout, SuggestHeaderLine(IF sgin.search = <<>>
                                                        THEN "no_functions"
                                                        ELSE "no_matching"))
            /\ sgst' = [sgst EXCEPT !.pc = "hint"]
       ELSE /\ sgout' = Append(sgout, SuggestHeaderLine("try_one"))
            /\ sgst' = [sgst EXCEPT !.pc = "loop"]
    /\ UNCHANGED <<nonSuggestVars, sgin>>

\* the second line printed for an empty list (lib.rs 103)
SuggestHint ==
    /\ sgst.pc = "hint"
    /\ sgout' = Append(sgout, SuggestHeaderLine("everything"))
    /\ sgst' = [sgst EXCEPT !.pc = "loop"]
    /\ UNCHANGED <<nonSuggestVars, sgin>>

\* one turn of the loop over `names` (lib.rs 112-120)
SuggestGroup ==
    /\ sgst.pc = "loop"
    /\ sgst.groups < Cardinality(GroupKeys(sgin.items, sgin.full))
    /\ LET key == GroupNth(sgin.items, sgin.full, sgst.groups)
           lens == GroupLens(sgin.items, sgin.full, key)
       IN /\ sgout' = Append(sgout, SuggestLine(sgst.ix, SuggestWidth(Len(sgin.items)),
                                                 key, lens))
          /\ sgst' = [sgst EXCEPT !.ix = sgst.ix + Len(lens), !.groups = sgst.groups + 1]
    /\ UNCHANGED <<nonSuggestVars, sgin>>

\* std::process::exit(1) after the loop (lib.rs 122)
SuggestExit ==
    /\ sgst.pc = "loop"
    /\ sgst.groups = Cardinality(GroupKeys(sgin.items, sgin.full))
    /\ sgst' = [sgst EXCEPT !.pc = "exit1"]
    /\ UNCHANGED <<nonSuggestVars, sgin, sgout>>

\* safeprintln: a line that cannot be written ends the run with status 0
SuggestWriteFails ==
    /\ \/ sgst.pc \in {"start", "hint"}
       \/ /\ sgst.pc = "loop"
          /\ sgst.groups < Cardinality(GroupKeys(sgin.items, sgin.full))
    /\ sgst' = [sgst EXCEPT !.pc = "exit0"]
    /\ UNCHANGED <<nonSuggestVars, sgin, sgout>>

\* suggest_name is called as get_dump_range calls it: with the keys of the
\* item map, or with those whose name contains the search text
InitSuggestName ==
    /\ items = EmptyMap
    /\ dumpCtx = "Generic"
    /\ ppc = "suggest_name"
    /\ spc = "unstarted"
    /\ cpc = [c \in Clients |-> "idle"]
    /\ InitIpc
    /\ InitScan
    /\ goal = Interactive
    /\ InitDump
    /\ InitRender
    /\ InitLocate
    /\ InitParse
    /\ InitSelect
    /\ \E search \in SuggestSearches, full \in BOOLEAN, S \in SUBSET SuggestItems :
        /\ \A it \in S : search = <<>> \/ Occurrences(it.name, search) # {}
        /\ sgin = [search |-> search, full |-> full, items |-> Enumeration(S)]
    /\ sgout = <<>>
    /\ sgst = [pc |-> "start", ix |-> 0, groups |-> 0]

NextSuggestName ==
    \/ SuggestHeader
    \/ SuggestHint
    \/ SuggestGroup
    \/ SuggestExit
    \/ SuggestWriteFails

SpecSuggestName == InitSuggestName /\ [][NextSuggestName]_vars

-----------------------------------------------------------------------------
(***************************************************************************)
(* Properties of the IPC service.                                          *)
(***************************************************************************)

ErrorPrefix == <<"E", "r", "r", "o", "r", ":", " ">>
ErrorTag == <<"E", "r", "r", "o", "r", ":">>

\* some line of the text begins with "Error:"
HasErrorLine(text) ==
    \E i \in 1..Len(TextLines(text)) : StartsWith(TextLines(text)[i], ErrorTag)

\* the enumeration order the specification names: by (name, hashed, index)
KeyBefore(a, b) ==
    \/ TextLess(a.name, b.name)
    \/ a.name = b.name /\ TextLess(a.hashed, b.hashed)
    \/ a.name = b.name /\ a.hashed = b.hashed /\ a.index < b.index

\* the range of the n-th entry in that order (n below the number of items)
NthRange(m, n) ==
    m[CHOOSE k \in DOMAIN m : Cardinality({j \in DOMAIN m : KeyBefore(j, k)}) = n]

NumItems == Cardinality(DOMAIN items)

\* connection c was accepted and handle_request has returned
Handled(c) == cstate[c] = "closed"

\* C1: a connection that sent exactly "Request: N\n" with N below the number
\* of items, once handled, has received the text the dump wrote for the range
\* of the N-th entry in (name, hashed, index) order -- the whole text of that
\* range when the dump returned Ok -- with no "Error:" line, and is closed.
C1_ValidRequestReceivesItsDump ==
    \A c \in Clients : \A n \in 0..(NumItems - 1) :
        (Handled(c) /\ csent[c] = RequestLine(n)) =>
            /\ crender[c] # "none"
            /\ IsPrefix(cresp[c], DumpText(NthRange(items, n)))
            /\ (crender[c] = "ok" => cresp[c] = DumpText(NthRange(items, n)))
            /\ ~HasErrorLine(cresp[c])

\* a client asked for index 1, was served the whole dump and read it to the end
C1_Witness ==
    \E c \in Clients :
        /\ csent[c] = RequestLine(1)
        /\ Handled(c)
        /\ crender[c] = "ok"
        /\ cpc[c] = "done"
        /\ cresp[c] # <<>>

\* the request is none of the protocol's messages
Malformed(bytes) == ~IsRequestMessage(bytes) /\ ~IsStopMessage(bytes)

\* the request is well formed and asks for an index that is not in the map
OutOfRange(bytes) == IsRequestMessage(bytes) /\ RequestedIndex(bytes) >= NumItems

\* the server loop has ended without a Stop and without a panic of the dump
EndedWithoutCause ==
    /\ spc \in {"returned", "panicked"}
    /\ ~Handled(StopConn)
    /\ \A c \in Conns : crender[c] # "panic"

\* C2: every handled request that is malformed or asks for an index >= the
\* number of items was answered with a line beginning "Error: " on its own
\* connection, and the server loop has not ended because of it.
C2_BadRequestGetsErrorLine ==
    /\ ~EndedWithoutCause
    /\ \A c \in Clients :
        (Handled(c) /\ (Malformed(csent[c]) \/ OutOfRange(csent[c]))) =>
            StartsWith(cresp[c], ErrorPrefix)

\* C3: when the dump for a valid index returns an error, the requesting
\* client has received a line beginning "Error: " when its stream is closed
\* (and the server loop goes on).
C3_RenderFailureGetsErrorLine ==
    /\ ~EndedWithoutCause
    /\ \A c \in Clients :
        (Handled(c) /\ crender[c] = "err") =>
            \E i \in 1..Len(TextLines(cresp[c])) :
                StartsWith(TextLines(cresp[c])[i], ErrorPrefix)

\* the connections the server has taken from the listener
Accepted == {c \in Conns : cstate[c] \in {"handling", "closed"}}

\* C4: once the server has read "Stop\n" it has written nothing to that
\* connection, start_server has returned with the listener closed, no
\* connection is in its hands, and it accepts no connection afterwards; every
\* connection it handled before has its complete answer.
C4_StopState ==
    Handled(StopConn) =>
        /\ cresp[StopConn] = <<>>
        /\ spc = "returned"
        /\ listener = "closed"
        /\ scur = NoConn
        /\ backlog = <<>>
        /\ \A c \in Clients : cstate[c] \in {"none", "closed", "reset"}
        /\ \A c \in Clients : \A n \in 0..(NumItems - 1) :
            (Handled(c) /\ csent[c] = RequestLine(n) /\ crender[c] = "ok") =>
                cresp[c] = DumpText(NthRange(items, n))

C4_StopEndsTheLoop ==
    [](C4_StopState) /\ [][Handled(StopConn) => Accepted' = Accepted]_vars

\* the Stop was read while a client that connected after it was still unserved
C4_Witness ==
    /\ Handled(StopConn)
    /\ \E c \in Clients : Handled(c) /\ crender[c] = "ok"
    /\ \E c \in Clients : cstate[c] = "reset"

\* C5: the Stop is sent (or its sending attempted) only after the finder has
\* exited; the final selection is rendered only after start_server has
\* returned and the scope has joined it; and the final render is written by
\* the dump itself to stdout while no connection is open, not over IPC.
C5_StopAfterFinderRenderAfterJoin ==
    /\ (cstate[StopConn] # "none" \/ scopePanic) => finder = "exited"
    /\ ppc \in {"select", "final_render", "done", "exit0", "exit1"} =>
            spc = "returned" /\ finder = "exited"
    /\ IsSome(finalOut) =>
        /\ spc = "returned"
        /\ listener = "closed"
        /\ \A c \in Conns : cstate[c] \in {"none", "closed", "reset"}
        /\ IsPrefix(Unwrap(finalOut), DumpText(Unwrap(SelectedRange.range)))

\* the final selection has been rendered
C5_Witness ==
    /\ ppc = "done"
    /\ IsSome(finalOut)
    /\ Unwrap(finalOut) # <<>>
    /\ Handled(StopConn)

\* the owner has left interactive_mode (returned, exited or panicked)
OwnerFinished == ppc \in {"done", "exit0", "exit1", "panicked"}

\* C6: once the finder has exited, the session is never stuck short of the
\* owner's final render or exit: as long as the owner has not finished, some
\* step of the owner, the server or a client is possible.
C6_NeverBlockedAfterFinderExit ==
    (finder = "exited" /\ ~OwnerFinished) => ENABLED Next

\* C7: in ping_pong_test no client thread fails, every client that has
\* finished has received exactly the text of its own item, the test's thread
\* does not panic, and the test is never stuck before the join has returned.
C7_PingPongPasses ==
    /\ \A c \in TestClients : cpc[c] # "panicked"
    /\ \A c \in TestClients :
        cpc[c] = "done" => cresp[c] = DumpText(NthRange(items, c - 1))
    /\ ppc # "panicked"
    /\ ppc = "test_passed" \/ ENABLED NextPingPong

\* the name written on a line of the list: what follows the first delimiter
NameOnLine(line) == Unwrap(SplitOnce(line, DELIMITER))[2]

\* the range of the item a line of the list names
RangeOnLine(line) == items[CHOOSE k \in DOMAIN items : k.name = NameOnLine(line)]

\* the finder's output is line i of the list
Selected(i) == fstatus = "success" /\ fout = published[i] \o <<"\n">>

\* C8: the item map never changes, and index N means the same item for the
\* list, for the server and for the final selection: the line of the list
\* numbered N names the item whose range a handled "Request: N" was answered
\* with and whose range the final render of selection N writes.
C8_IndexDenotesOneItem ==
    \A i \in 1..Len(published) :
        /\ ParseSelection(published[i]) = Some(i - 1)
        /\ \A c \in Clients :
            (Handled(c) /\ csent[c] = RequestLine(i - 1) /\ crender[c] = "ok") =>
                cresp[c] = DumpText(RangeOnLine(published[i]))
        /\ (Selected(i) /\ ppc = "done") =>
                finalOut = Some(DumpText(RangeOnLine(published[i])))

C8_MapUnchangedIndexStable ==
    [](C8_IndexDenotesOneItem) /\ [][items' = items]_vars

\* a preview of line 1 of the list was served and the same line was then
\* selected and rendered
C8_Witness ==
    /\ ppc = "done"
    /\ Len(published) >= 2
    /\ Selected(2)
    /\ \E c \in Clients : Handled(c) /\ csent[c] = RequestLine(1) /\ crender[c] = "ok"

TwoRequests == RequestLine(0) \o RequestLine(1)

\* C9: at most one connection is in the server's hands at any time, and it
\* is the one handle_request owns; a connection still waiting has been neither
\* read nor answered; and a connection is answered for its first line only.
C9_OneConnectionOneRequest ==
    /\ Cardinality({c \in Conns : cstate[c] = "handling"}) <= 1
    /\ \A c \in Conns : cstate[c] = "handling" <=> (spc = "handle" /\ scur = c)
    /\ \A c \in Conns :
        cstate[c] \in {"none", "backlog", "handling", "reset"} =>
            cresp[c] = <<>> /\ crender[c] = "none"
    /\ \A c \in Clients :
        (Handled(c) /\ csent[c] = TwoRequests /\ crender[c] = "ok" /\ NumItems >= 2) =>
            cresp[c] = DumpText(NthRange(items, 0))

\* a connection that carried two request lines was answered for the first
\* while another connection was waiting
C9_Witness ==
    \E c, d \in Clients :
        /\ Handled(c) /\ csent[c] = TwoRequests /\ crender[c] = "ok"
        /\ cstate[d] = "backlog"

-----------------------------------------------------------------------------
(***************************************************************************)
(* Properties of find_items.                                               *)
(***************************************************************************)

\* no statement index belongs to both half-open ranges
Disjoint(r, s) == \A i \in r[1]..(r[2] - 1) : ~(s[1] <= i /\ i < s[2])

\* C10: the ranges find_items records for distinct items are pairwise
\* non-overlapping, and their start indices strictly increase in the order in
\* which the scan closes the items.
C10_RangesDisjointStartsIncrease ==
    /\ \A a, b \in DOMAIN res : a # b => Disjoint(res[a], res[b])
    /\ \A i, j \in 1..Len(closed) : i < j => closed[i][2][1] < closed[j][2][1]

-----------------------------------------------------------------------------
(***************************************************************************)
(* Properties of dump_function and get_dump_range.                         *)
(***************************************************************************)

\* the range of the only item of the map
OnlyRange == items[CHOOSE k \in DOMAIN items : TRUE]

\* the finder was never started, nothing was suggested, and the run went
\* straight to the only item's range
ResolvedDirectly ==
    /\ finder = "none"
    /\ diag = "none"
    /\ ppc # "dump_function" => dumpRange = Some(Some(OnlyRange))

\* C11 as stated: with exactly one item in the map, for every goal, the
\* interactive one included, the run never starts the finder or prints
\* suggestions and resolves directly to that item's range.
C11_OneItemEveryGoalDirect == NumItems = 1 => ResolvedDirectly

\* C11 (amended): with exactly one item in the map, for every goal other than
\* the interactive one, the run never starts the finder or prints suggestions
\* and resolves directly to that item's range.
C11_OneItemDirectUnlessInteractive ==
    (NumItems = 1 /\ goal # Interactive) => ResolvedDirectly

\* an ambiguous goal was resolved to the only item and rendered
C11_Witness ==
    /\ NumItems = 1
    /\ goal = Unspecified
    /\ ppc = "done"
    /\ finalOut = Some(DumpText(OnlyRange))

\* the finder was gone when the list was to be written to its input: the
\* owner is past the write and nothing was published
ListWriteFailed ==
    /\ NumItems > 0
    /\ finder = "exited"
    /\ published = <<>>
    /\ ppc \notin {"dump_function", "spawn_finder", "publish"}

\* a diagnostic of get_dump_range was cut short by a closed stdout
DiagnosticWriteFailed == diag # "none" /\ ppc # "exit1"

\* C15: a write that fails because its consumer is gone ends the run silently
\* with status success, be it the render to stdout, a diagnostic or the list
\* written to the finder's input; it never ends in a panic or another status.
C15_BrokenPipeExitsWithSuccess ==
    (ListWriteFailed \/ DiagnosticWriteFailed) => ppc = "exit0"

\* the scan has just gone over a global-symbol statement at index ix
GlobalStepAt(ix) ==
    /\ Len(lines) = ix
    /\ Len(lines') = ix + 1
    /\ is_global(lines'[ix + 1])

\* C20 as stated: a global-symbol statement at index ix moves the section
\* start to ix exactly when the section start is more than 2 statements behind
\* (ix - sec_start > 2), whether or not an item is open.
C20_GlobalGapMoreThanTwo ==
    [][\A ix \in 0..MaxStmts :
          GlobalStepAt(ix) =>
              sec_start' = IF ix - sec_start > 2 THEN ix ELSE sec_start]_vars

\* C20 (amended): a global-symbol statement at index ix moves the section
\* start to ix exactly when the section start is more than 3 statements behind
\* (sec_start + 3 < ix), whether or not an item is open; with a gap of 3 or
\* less it leaves the section start unchanged.
C20_GlobalGapMoreThanThree ==
    [][\A ix \in 0..MaxStmts :
          GlobalStepAt(ix) =>
              sec_start' = IF ix - sec_start > 3 THEN ix ELSE sec_start]_vars

\* a global-symbol statement has moved the section start while an item is open
C20_Witness ==
    /\ Len(lines) > 0
    /\ is_global(lines[Len(lines)])
    /\ sec_start = Len(lines) - 1
    /\ sec_start > 0
    /\ IsSome(item)

-----------------------------------------------------------------------------
(***************************************************************************)
(* Properties of the renderer.                                             *)
(***************************************************************************)

\* the statement at position i of the scope has been rendered, and a line of
\* kind k was written for it
Emitted(k, i) == \E n \in DOMAIN rout : rout[n] = [k |-> k, ix |-> i]

PrunableLabel(i) == Scope[i].t = "Label" /\ Scope[i].kind \in {"Local", "Temp"}

\* the text of a statement, when it is one of the given kinds of statement
TextIn(stmt, kinds) ==
    IF stmt.t \notin kinds THEN <<>>
    ELSE IF stmt.t = "Instruction" THEN (IF IsSome(stmt.args) THEN Unwrap(stmt.args) ELSE <<>>)
    ELSE IF stmt.t = "SectionStart" THEN <<stmt.name>>
    ELSE stmt.text

\* some other statement of the scope, of one of the given kinds, mentions the
\* label at position i
ReferencedInScope(i, kinds) ==
    \E j \in DOMAIN Scope \ {i} :
        \E n \in DOMAIN TextIn(Scope[j], kinds) : TextIn(Scope[j], kinds)[n] = Scope[i].id

LabelRule(kinds) ==
    \A i \in 1..rix :
        PrunableLabel(i) =>
            (Emitted("label", i) <=> (fmt.keep_labels \/ ReferencedInScope(i, kinds)))

\* C12 as stated: a Local or Temp label of the scope is emitted exactly when
\* keep-labels is on or its identifier occurs in the instruction-argument,
\* directive or unrecognized-line text of another statement of the scope
C12_LabelLiveByAnyDirective ==
    LabelRule({"Instruction", "Generic", "SectionStart", "Set", "Dunno"})

\* C12 amended: the directives whose text counts are the generic ones and the
\* section starts; a .set directive (like .file, .loc and the subsections
\* marker) contributes no reference.  References outside the scope never count.
C12_LabelLiveByScannedText ==
    LabelRule({"Instruction", "Generic", "SectionStart", "Dunno"})

\* a render of a range is complete in which one label was kept for a reference
\* that comes after it, and another was dropped although a statement outside
\* the range mentions it
C12_Witness ==
    /\ rpc = "ok"
    /\ ~fmt.keep_labels
    /\ IsSome(rrange)
    /\ \E i \in DOMAIN Scope :
           /\ PrunableLabel(i)
           /\ Emitted("label", i)
           /\ \A j \in 1..(i - 1) : Scope[i].id \notin UsedLabels(<<Scope[j]>>)
    /\ \E i \in DOMAIN Scope :
           /\ PrunableLabel(i)
           /\ ~Emitted("label", i)
           /\ Scope[i].id \in UsedLabels(rstmts)


\* the label at position i of the scope has been gone over and was not emitted
Suppressed(i) == i <= rix /\ PrunableLabel(i) /\ ~Emitted("label", i)

Blanks(i, j) == {k \in i..j : Emitted("blank", k)}

PlaceholderRule ==
    /\ \A i \in 1..rix : \A j \in i..rix :
           (\A k \in i..j : Suppressed(k)) => Cardinality(Blanks(i, j)) <= 1
    /\ \A i \in 1..rix :
           (Suppressed(i) /\ Scope[i].kind = "Temp") => ~Emitted("blank", i)

\* the step ends with the line of a statement or of a location marker, written
\* for the statement of this iteration
EmitsStatementOrMarker ==
    /\ Len(rout') > Len(rout)
    /\ rout'[Len(rout')] \in {[k |-> "stmt", ix |-> rix + 1], [k |-> "marker", ix |-> rix + 1],
                              [k |-> "source", ix |-> rix + 1]}

\* C13: a contiguous run of suppressed labels has at most one blank line, a
\* suppressed Temp label has none of its own, and the blank-line flag goes
\* from set to clear only in a step that emits a statement or a location marker
C13_OneBlankPerRun ==
    /\ []PlaceholderRule
    /\ [][(empty_line /\ ~empty_line') => EmitsStatementOrMarker]_vars

\* a render is complete whose scope is a run of three suppressed labels, a
\* Temp one among them, with the one blank line written for the first
C13_Witness ==
    /\ rpc = "ok"
    /\ Len(Scope) = 3
    /\ \A i \in 1..3 : Suppressed(i)
    /\ \E i \in 1..3 : Scope[i].kind = "Temp"
    /\ Blanks(1, 3) = {1}
    /\ empty_line


LocAt(i) == [file |-> Scope[i].file, line |-> Scope[i].line]

\* the kinds of the lines written for the statement at position i
KindsWrittenFor(i) == {rout[n].k : n \in {m \in DOMAIN rout : rout[m].ix = i}}

\* position j holds the location emitted most recently before position i
LastEmittedBefore(j, i) ==
    /\ j < i
    /\ Emitted("marker", j)
    /\ \A k \in (j + 1)..(i - 1) : ~Emitted("marker", k)

\* a location equal to the one emitted last has neither marker nor source line
NoDuplicateLocation ==
    \A i \in 1..rix : \A j \in 1..rix :
        (Scope[i].t = "Loc" /\ LastEmittedBefore(j, i) /\ LocAt(j) = LocAt(i))
            => KindsWrittenFor(i) \cap {"marker", "source"} = {}

\* a location directive with line 0, or any with interleaving off, has only
\* lines of the allowed kinds written for it
SilentLocations(allowed) ==
    \A i \in 1..rix :
        (Scope[i].t = "Loc" /\ (~fmt.rust \/ Scope[i].line = 0))
            => KindsWrittenFor(i) \subseteq allowed

\* C14 as stated: with interleaving on a location with line 0 produces no
\* output and a location equal to the one emitted last produces neither marker
\* nor source line; with interleaving off no location produces any output
C14_SuppressedLocationWritesNothing ==
    SilentLocations({}) /\ NoDuplicateLocation

\* C14 amended: the output such a location never produces is the marker, the
\* source line and the diagnostic; at maximal verbosity the debug trace of the
\* directive itself is still written
C14_SuppressedLocationWritesTraceOnly ==
    SilentLocations({"trace"}) /\ NoDuplicateLocation

\* a render with interleaving on and maximal verbosity is complete: a location
\* was emitted with its source line, then one with line 0 and one equal to the
\* first were gone over, each leaving its debug trace only
C14_Witness ==
    /\ rpc = "ok"
    /\ fmt.rust /\ fmt.verbosity > 2
    /\ Len(Scope) = 3
    /\ \A i \in 1..3 : Scope[i].t = "Loc"
    /\ Scope[2].line = 0
    /\ LocAt(1) = LocAt(3)
    /\ KindsWrittenFor(1) = {"trace", "marker", "source"}
    /\ KindsWrittenFor(2) = {"trace"}
    /\ KindsWrittenFor(3) = {"trace"}

-----------------------------------------------------------------------------
(***************************************************************************)
(* Properties of locate_sources.                                           *)
(***************************************************************************)

\* a 'cargo' or '.cargo' component of the path is followed at once by
\* 'registry'
RegistryReference(path) ==
    \E i \in DOMAIN path :
        /\ path[i] \in {"cargo", ".cargo"}
        /\ i + 1 <= Len(path)
        /\ path[i + 1] = "registry"

\* the path was looked up, does not exist as it stands and is in none of the
\* two compiler-source forms
RegistryLookup ==
    /\ IsSome(lpath)
    /\ RegistryReference(Unwrap(lpath))
    /\ Unwrap(lpath) \notin fs
    /\ ~PathStartsWith(Unwrap(lpath), <<RootDir, "rustc">>)
    /\ ~PathStartsWith(Unwrap(lpath), <<RootDir, "private", "tmp">>)

\* C16: a registry reference that does not exist as it stands is answered
\* with a path under the home directory's .cargo that exists, or the process
\* aborts; it is never reported as not found
C16_RegistryReferenceNeverNotFound ==
    RegistryLookup =>
        \/ lres.k = "panic"
        \/ /\ lres.k = "some"
           /\ lres.path \in fs
           /\ PathStartsWith(lres.path, HomeDir \o <<".cargo">>)


\* C17: a path that exists as it stands is returned unchanged, whatever its
\* form: no rewriting, no exit for missing compiler sources, no panic
C17_ExistingPathReturnedUnchanged ==
    (IsSome(lpath) /\ Unwrap(lpath) \in fs)
        => lres = [k |-> "some", path |-> Unwrap(lpath)]

\* a /rustc/ path that exists as it stands was looked up while the installed
\* compiler sources are missing, and came back unchanged
C17_Witness ==
    /\ IsSome(lpath)
    /\ PathStartsWith(Unwrap(lpath), <<RootDir, "rustc">>)
    /\ Unwrap(lpath) \in fs
    /\ RustSrc(Unwrap(lpath), 3) \notin fs
    /\ lres = [k |-> "some", path |-> Unwrap(lpath)]

-----------------------------------------------------------------------------
(***************************************************************************)
(* Properties of parse_file.                                               *)
(***************************************************************************)

Parsed == pres.k # "idle"

\* C18: parse_file returns the statements only when nothing is left over;
\* otherwise it fails, with the whole of the leftovers when they are shorter
\* than 1000 bytes and with their first 200 characters when not, and taking
\* that prefix never fails; after a failure dump_function has called neither
\* find_items nor a render
C18_ParseFailureCarriesLeftovers ==
    /\ pres.k = "ok" => (Bytes(pin) = 0 /\ ~pin.failure /\ pres.stmts = pin.stmts)
    /\ (Parsed /\ ~pin.failure /\ Bytes(pin) > 0) =>
           IF Bytes(pin) < 1000
           THEN pres = [k |-> "err_leftovers", bytes |-> Bytes(pin), chars |-> Chars(pin)]
           ELSE /\ pres.k = "err_prefix"
                /\ pres.chars = 200
                /\ pres.bytes <= Bytes(pin)
    /\ (Parsed /\ pin.failure) => pres.k = "err_grammar"
    /\ pres.k # "panic"
    /\ (Parsed /\ pres.k # "ok") => dcalls = <<"parse_file">>

\* leftovers of exactly 1000 bytes in 250 characters were met: the error
\* carries 200 of them, and dump_function went no further
C18_Witness ==
    /\ Bytes(pin) = 1000 /\ Chars(pin) = 250
    /\ pres = [k |-> "err_prefix", bytes |-> 800, chars |-> 200]
    /\ dcalls = <<"parse_file">>

-----------------------------------------------------------------------------
(***************************************************************************)
(* Properties of serialize and deserialize.                                *)
(***************************************************************************)

\* C19: the line serialize writes for the item at position i of a non-empty
\* map deserializes to i, whatever the name holds and however wide the
\* padding is
C19_DeserializeInvertsSerialize ==
    sres.k = "done" => sres.res = [k |-> "ok", v |-> sres.pos]

\* a padded line of a map of more than ten items, whose name holds the
\* delimiter, came back as its position
C19_Witness ==
    /\ sres.k = "done"
    /\ Cardinality(DOMAIN smap) > 10
    /\ sres.pos = 7
    /\ sout[8][1] = " "
    /\ IsSome(SplitOnce(Unwrap(KeysNth(smap, 7)).name, DELIMITER))
    /\ sres.res = [k |-> "ok", v |-> 7]

-----------------------------------------------------------------------------
(***************************************************************************)
(* Properties of find_items, step by step.                                 *)
(***************************************************************************)

\* the statement this step of the scan reads, and its index
LineRead == lines'[Len(lines')]
ReadsLine == Len(lines') = Len(lines) + 1

\* this step opens the item named name at the statement it reads
Opens(name, hashed) ==
    /\ item' = Some(Item(name, hashed, NameEntry(name), Len(lines)))
    /\ names' = NameEntryBumped(name)

\* the statement at the current section start is a section start named
\* ".text." followed by exactly id
SectionNamedExactly(id) ==
    /\ sec_start < Len(lines)
    /\ is_section_start(lines[sec_start + 1])
    /\ lines[sec_start + 1].name = TEXT_PREFIX \o id

\* C21: a label that does not demangle opens an item named by its raw id
\* exactly when its kind is Unknown and the section start in force is named
\* ".text." followed by exactly that id; otherwise it opens nothing
C21_SyntheticItemOnlyForExactSection ==
    [][(ReadsLine /\ IsLabel(LineRead) /\ Demangled(LineRead.id) = None) =>
            IF LineRead.kind = "Unknown" /\ SectionNamedExactly(LineRead.id)
            THEN Opens(LineRead.id, LineRead.id)
            ELSE UNCHANGED <<item, names>>]_vars


\* the result map after e was inserted with range r
Inserted(e, r) ==
    /\ DOMAIN res' = DOMAIN res \cup {e}
    /\ res'[e] = r
    /\ \A k \in DOMAIN res \ {e} : res'[k] = res[k]

\* C22: an end-of-function marker at index e closes the open item with the
\* non-empty range section_start..e and len = e minus the index of its label,
\* which is smaller than e; with no item open it changes nothing of the scan
C22_EndOfFnClosesOpenItem ==
    [][(ReadsLine /\ is_end_of_fn(LineRead)) =>
            LET e == Len(lines)
            IN  IF IsSome(item)
                THEN /\ Unwrap(item).len < e
                     /\ sec_start < e
                     /\ Inserted([Unwrap(item) EXCEPT !.len = e - Unwrap(item).len],
                                 <<sec_start, e>>)
                     /\ item' = None
                     /\ UNCHANGED <<sec_start, names>>
                ELSE UNCHANGED <<sec_start, item, names, res>>]_vars

\* an item was closed whose range starts before its label, and a later
\* end-of-function marker found no item open
C22_Witness ==
    /\ Len(lines) > 0
    /\ is_end_of_fn(lines[Len(lines)])
    /\ Len(lines) > 1 /\ is_end_of_fn(lines[Len(lines) - 1])
    /\ Len(closed) = 1
    /\ closed[1][2][1] < closed[1][2][2] - closed[1][1].len
    /\ closed[1][1] \in DOMAIN res


\* the items recorded under one display name
ItemsNamed(name) == {it \in DOMAIN res : it.name = name}

\* C23: the recorded items of one display name carry the indices 0, 1, ...,
\* k-1, each exactly once
C23_IndicesOfNameContiguous ==
    \A it \in DOMAIN res :
        {other.index : other \in ItemsNamed(it.name)} = 0..(Cardinality(ItemsNamed(it.name)) - 1)


\* C24: a section start read while an item is open changes neither the
\* section start, nor the open item, nor the result; read with no item open
\* it moves the section start to its own index and changes nothing else
C24_SectionStartIgnoredWhileItemOpen ==
    [][(ReadsLine /\ is_section_start(LineRead)) =>
            /\ UNCHANGED <<item, names, res>>
            /\ sec_start' = IF IsSome(item) THEN sec_start ELSE Len(lines)]_vars

\* an item was closed that had a second section start between its label and
\* its end-of-function marker, and its range starts at the first
C24_Witness ==
    /\ Len(lines) = 4
    /\ is_section_start(lines[1])
    /\ IsLabel(lines[2])
    /\ is_section_start(lines[3])
    /\ is_end_of_fn(lines[4])
    /\ Len(closed) = 1
    /\ closed[1][2] = <<0, 3>>
    /\ sec_start = 0


\* C30: the range of every recorded item contains the index of the label
\* that opened it, which is the end of the range less the item's len
C30_RangeContainsLabel ==
    \A n \in DOMAIN closed :
        LET it == closed[n][1]
            range == closed[n][2]
            label == range[2] - it.len
        IN  range[1] <= label /\ label < range[2]

-----------------------------------------------------------------------------
(***************************************************************************)
(* More properties of the IPC service.                                     *)
(***************************************************************************)

\* the line the server read from connection c
LineOf(c) == IF TextLines(csent[c]) = <<>> THEN <<>> ELSE TextLines(csent[c])[1]

\* C25: a handled line was rendered only if it is exactly "Request: ", a
\* decimal index and a newline; every other line that is not "Stop\n" was
\* answered with the malformed-message line and not rendered
C25_OnlyExactRequestsRendered ==
    \A c \in Clients :
        Handled(c) =>
            /\ crender[c] # "none" => IsRequestMessage(LineOf(c))
            /\ Malformed(LineOf(c)) => (cresp[c] = MsgMalformed /\ crender[c] = "none")

-----------------------------------------------------------------------------
(***************************************************************************)
(* More properties of dump_function and get_dump_range.                    *)
(***************************************************************************)

\* dump_function is past get_dump_range
Resolved == ppc # "dump_function"

\* C26: selecting by index with a value >= the number of items ends the run
\* after the diagnostic (with a non-zero status when it could be written) and
\* renders nothing; with a value in bounds the range is that of the entry at
\* that position of the enumeration order
C26_ByIndexBoundsChecked ==
    (Resolved /\ goal.t = "ByIndex") =>
        IF goal.value >= NumItems
        THEN /\ ppc \in {"exit1", "exit0"}
             /\ diag = "no_such_index"
             /\ finalOut = None
        ELSE dumpRange = Some(ValuesNth(items, goal.value))

\* C27: the goal "everything" yields no range, and the render that follows
\* is that of the whole statement sequence
C27_EverythingYieldsNoRange ==
    (Resolved /\ goal = Everything) =>
        /\ dumpRange = Some(None)
        /\ ppc = "done" => finalOut = Some(DumpText(<<0, Len(Data)>>))

-----------------------------------------------------------------------------
(***************************************************************************)
(* More properties of the renderer.                                        *)
(***************************************************************************)

\* the lines of the output, of the given kinds, in the order written
LinesOfKinds(ks) == SelectSeq(rout, LAMBDA l : l.k \in ks)

\* the lines stand for statements of the scope, each at most once, in the
\* order of the scope
InOrderOnce(ls) ==
    /\ \A a \in DOMAIN ls : ls[a].ix \in 1..Len(Scope)
    /\ \A a \in DOMAIN ls : \A b \in DOMAIN ls : a < b => ls[a].ix < ls[b].ix

\* the pruning rules allow the statement at position i to be left out
MayBeOmitted(i, kinds) ==
    \/ Scope[i].t \in {"File", "Loc"}
    \/ PrunableLabel(i) /\ ~fmt.keep_labels /\ ~ReferencedInScope(i, kinds)
    \/ fmt.simplify /\ (IsDirective(Scope[i]) \/ Scope[i].t = "Dunno")

\* every statement gone over and not in the lines may be omitted
OnlyPruned(ls, kinds) ==
    \A i \in 1..rix :
        (\A a \in DOMAIN ls : ls[a].ix # i) => MayBeOmitted(i, kinds)

\* C28 as stated: the lines written for statements, the debug trace among
\* them, are a subsequence of the scope in its order with no statement
\* twice, and what is left out is a file or location directive, a Local or
\* Temp label that no instruction, directive or unrecognized line of the
\* scope mentions, or, under simplify, a directive or unrecognized line
C28_OutputIsPrunedSubsequence ==
    /\ InOrderOnce(LinesOfKinds({"trace", "label", "stmt"}))
    /\ OnlyPruned(LinesOfKinds({"label", "stmt"}),
                  {"Instruction", "Generic", "SectionStart", "Set", "Dunno"})

\* C28 amended: the debug trace apart, the lines written for statements are
\* a subsequence of the scope in its order with no statement twice, and what
\* is left out is a file or location directive, a Local or Temp label outside
\* the used-label set (to which a .set directive contributes nothing), or,
\* under simplify, a directive or unrecognized line
C28_DisplayIsPrunedSubsequence ==
    /\ InOrderOnce(LinesOfKinds({"label", "stmt"}))
    /\ OnlyPruned(LinesOfKinds({"label", "stmt"}),
                  {"Instruction", "Generic", "SectionStart", "Dunno"})

\* a render of a range under simplify is complete: an instruction and a
\* label were written in their order and a generic directive was left out
C28_Witness ==
    /\ rpc = "ok"
    /\ fmt.simplify /\ ~fmt.keep_labels
    /\ IsSome(rrange)
    /\ Len(Scope) = 3
    /\ Scope[1].t = "Label" /\ Emitted("label", 1)
    /\ Scope[2].t = "Generic" /\ KindsWrittenFor(2) = {}
    /\ Scope[3].t = "Instruction" /\ Emitted("stmt", 3)
    /\ Len(rout) = 2


\* C29: the render ends by returning to its caller, with success or with a
\* failure value, also when a location directive names a file that the
\* source cache has no entry for; it never aborts the run
C29_RenderReturnsToCaller == rpc \in {"idle", "run", "ok", "err"}

-----------------------------------------------------------------------------
(***************************************************************************)
(* Publishing the list of an empty map.                                    *)
(***************************************************************************)

\* C32: with an empty item map and the finder running, publishing the item
\* list does not abort the owner
C32_EmptyListPublishedWithoutAbort ==
    (NumItems = 0 /\ finder = "running") => ppc # "panicked"

-----------------------------------------------------------------------------
(***************************************************************************)
(* The sequence numbers of suggest_name.                                   *)
(***************************************************************************)

\* the group lines suggest_name has printed
GroupLinesPrinted == {i \in DOMAIN sgout : sgout[i].k = "group"}

\* the number printed on a line
PrintedNumber(line) == DecValue(TrimStart(line.num))

\* C31: the number printed beside a group is the position, in the items'
\* enumeration order, of the first item of the group, whichever name the
\* groups are made by
C31_NumberIsFirstPositionOfGroup ==
    \A i \in GroupLinesPrinted :
        LET at == PositionsOf(sgin.items, sgin.full, sgout[i].name)
        IN /\ PrintedNumber(sgout[i]) \in at
           /\ \A p \in at : PrintedNumber(sgout[i]) <= p

=============================================================================
